---- MODULE Spec2Model ----
(***************************************************************************)
(* jsonvfy: a streaming JSON syntax verifier.                              *)
(*                                                                         *)
(* The reader is a byte stream.  `input` holds the bytes the source has    *)
(* delivered and the program has not consumed yet, `eof` says that the     *)
(* source has no further byte.  ReadNextToken is the call of               *)
(* read_next_token at the head of the token loop of verify, each Token..   *)
(* action is the match arm of the token it returned, and PostLoop is the   *)
(* code after the loop.  pc is the position of verify: "loop", "match",    *)
(* "post" or "done".                                                       *)
(***************************************************************************)
EXTENDS Integers, Sequences, FiniteSets, TLC

VARIABLES
    input,       \* bytes delivered by the source and not yet consumed
    eof,         \* TRUE when the source will deliver no further byte
    whole,       \* the complete document of an in-memory reader (Cursor), <<>> for a stream
    rest,        \* the bytes of a document that its source has not delivered yet
    json_stack,  \* verify: json_stack
    expects,     \* verify: expects
    tok,         \* verify: tok, the token of this iteration of the loop
    pc,          \* position of verify: "loop", "match", "post", "done"
    result       \* "none" while running, then "true", "false" or "panic"

vars == <<input, eof, whole, rest, json_stack, expects, tok, pc, result>>

(***************************************************************************)
(* Bytes                                                                   *)
(***************************************************************************)
SPACE == 32
TAB == 9
LF == 10
CR == 13
LBRACKET == 91
RBRACKET == 93
LBRACE == 123
RBRACE == 125
COLON_B == 58
COMMA_B == 44
QUOTE == 34
BACKSLASH == 92
SLASH == 47
LOWER_B == 98
LOWER_F == 102
LOWER_N == 110
LOWER_R == 114
LOWER_T == 116
LOWER_U == 117
MINUS == 45
PLUS == 43
DOT == 46
DIGIT0 == 48
DIGIT1 == 49
DIGIT9 == 57
UPPER_E == 69
LOWER_E == 101
UPPER_A == 65
UPPER_F == 70
LOWER_A == 97
BACKSPACE == 8
FORMFEED == 12

Min(a, b) == IF a < b THEN a ELSE b

\* the bytes of s from index i (1-based) to the end
From(s, i) == SubSeq(s, i, Len(s))

(***************************************************************************)
(* Results of the readers.  st is "Tok", "None", "Err" or "Panic"; type is *)
(* the token type or the error kind; data is the token's payload (the      *)
(* JsonChars of a String, the bytes of a Number) or the error's payload;   *)
(* n is the number of bytes consumed from the reader; look is the index of *)
(* the last byte position the reader had to examine (Len + 1 when it ran   *)
(* into the end of the delivered bytes).                                   *)
(***************************************************************************)
Res(st, type, data, n, look) ==
    [st |-> st, type |-> type, data |-> data, n |-> n, look |-> look]

\* unwrap_eof / read_exact on a reader without enough bytes: an Io error
EofErr(s) == Res("Err", "Io", <<>>, Len(s), Len(s) + 1)

IsWhitespace(b) == b = SPACE \/ b = TAB \/ b = LF \/ b = CR

RECURSIVE WsLen(_, _)
\* number of whitespace bytes of s starting at index i
WsLen(s, i) ==
    IF i <= Len(s) /\ IsWhitespace(s[i]) THEN 1 + WsLen(s, i + 1) ELSE 0

\* skip_whitespace that stops after one byte of whitespace
skip_whitespace_OneByte(s) == IF s # <<>> /\ IsWhitespace(s[1]) THEN 1 ELSE 0

\* skip_whitespace: the number of bytes it consumes
skip_whitespace(s) == WsLen(s, 1)

get_simple_token(b) ==
    CASE b = LBRACKET -> "OpeningBracket"
      [] b = RBRACKET -> "ClosingBracket"
      [] b = LBRACE -> "OpeningBrace"
      [] b = RBRACE -> "ClosingBrace"
      [] b = COLON_B -> "Colon"
      [] b = COMMA_B -> "Comma"
      [] OTHER -> "NoSimpleToken"

(***************************************************************************)
(* JsonChar                                                                *)
(***************************************************************************)
JsonChar(k, v) == [k |-> k, v |-> v]

\* is_ascii_hexdigit without the capital letters
is_ascii_hexdigit_NoUpper(b) ==
    \/ (b >= DIGIT0 /\ b <= DIGIT9)
    \/ (b >= LOWER_A /\ b <= LOWER_F)

is_ascii_hexdigit(b) ==
    \/ (b >= DIGIT0 /\ b <= DIGIT9)
    \/ (b >= UPPER_A /\ b <= UPPER_F)
    \/ (b >= LOWER_A /\ b <= LOWER_F)

HexDigit(b) ==
    IF b <= DIGIT9 THEN b - DIGIT0
    ELSE IF b <= UPPER_F THEN b - UPPER_A + 10
    ELSE b - LOWER_A + 10

\* u16::from_str_radix(escape_str, 16) of four hex digits
from_str_radix(d) ==
    HexDigit(d[1]) * 4096 + HexDigit(d[2]) * 256 + HexDigit(d[3]) * 16 + HexDigit(d[4])

FixedEscape(b) ==
    CASE b = QUOTE -> "EscapedQuote"
      [] b = BACKSLASH -> "EscapedBackslash"
      [] b = SLASH -> "EscapedSlash"
      [] b = LOWER_B -> "EscapedBackspace"
      [] b = LOWER_F -> "EscapedFormFeed"
      [] b = LOWER_N -> "EscapedLineFeed"
      [] b = LOWER_R -> "EscapedCarriageReturn"
      [] b = LOWER_T -> "EscapedTab"
      [] OTHER -> "NoFixedEscape"

RECURSIVE ReadStringLoop(_, _, _, _)
\* the loop of read_string: i is the index of the next byte to read
ReadStringLoop(s, i, escaping, string) ==
    IF i > Len(s) THEN EofErr(s)
    ELSE LET b == s[i] IN
      IF escaping THEN
        IF b = LOWER_U THEN
            IF i + 4 > Len(s) THEN EofErr(s)
            ELSE LET escape_buf == SubSeq(s, i + 1, i + 4) IN
              IF \E j \in 1..4 : ~is_ascii_hexdigit(escape_buf[j])
              THEN Res("Err", "InvalidUnicodeEscape", escape_buf, i + 4, i + 4)
              ELSE ReadStringLoop(s, i + 5, FALSE,
                     Append(string, JsonChar("UnicodeEscape", from_str_radix(escape_buf))))
        ELSE IF FixedEscape(b) # "NoFixedEscape"
          THEN ReadStringLoop(s, i + 1, FALSE, Append(string, JsonChar(FixedEscape(b), 0)))
          ELSE Res("Err", "UnknownEscape", <<b>>, i, i)
      ELSE
        IF b = QUOTE THEN Res("Tok", "String", string, i, i)
        ELSE IF b = BACKSLASH THEN ReadStringLoop(s, i + 1, TRUE, string)
        ELSE ReadStringLoop(s, i + 1, FALSE, Append(string, JsonChar("Byte", b)))

\* read_string on a reader whose first byte is the opening quote
read_string(s) == ReadStringLoop(s, 2, FALSE, <<>>)

(***************************************************************************)
(* read_number_string                                                      *)
(***************************************************************************)
IsDigit(b) == b >= DIGIT0 /\ b <= DIGIT9

IsDigit19(b) == b >= DIGIT1 /\ b <= DIGIT9

\* the exponent mark without the capital letter
IsE_LowerOnly(b) == b = LOWER_E

IsE(b) == b = UPPER_E \/ b = LOWER_E

InvalidNumberCharacter(b, i) == Res("Err", "InvalidNumberCharacter", <<b>>, i, i)

\* NumberDone that also consumes the byte it peeked at
NumberDone_ConsumesPeeked(s, i, number_buf) ==
    Res("Tok", "Number", number_buf, Min(i, Len(s)), Min(i, Len(s) + 1))

\* a state where a character is optional returns the accumulated bytes
NumberDone(s, i, number_buf) ==
    Res("Tok", "Number", number_buf, i - 1, Min(i, Len(s) + 1))

RECURSIVE NumberLoop(_, _, _, _)
\* the loop of read_number_string: i is the index of the next byte to read or peek
NumberLoop(s, i, state, number_buf) ==
    LET b == s[i]
        push == Append(number_buf, b)
    IN
    CASE state = "ExpectMinusOrZeroOrInitialMantissa" ->
           IF i > Len(s) THEN EofErr(s)
           ELSE IF b = MINUS THEN NumberLoop(s, i + 1, "ExpectInitialMantissa", push)
           ELSE IF b = DIGIT0 THEN NumberLoop(s, i + 1, "ExpectDotOrE", push)
           ELSE IF IsDigit19(b) THEN NumberLoop(s, i + 1, "ExpectMantissaOrDotOrE", push)
           ELSE InvalidNumberCharacter(b, i)
      [] state = "ExpectInitialMantissa" ->
           IF i > Len(s) THEN EofErr(s)
           ELSE IF b = DIGIT0 THEN NumberLoop(s, i + 1, "ExpectDotOrE", push)
           ELSE IF IsDigit19(b) THEN NumberLoop(s, i + 1, "ExpectMantissaOrDotOrE", push)
           ELSE InvalidNumberCharacter(b, i)
      [] state = "ExpectDotOrE" ->
           IF i > Len(s) THEN NumberDone(s, i, number_buf)
           ELSE IF b = DOT THEN NumberLoop(s, i + 1, "ExpectFractional", push)
           ELSE IF IsE(b) THEN NumberLoop(s, i + 1, "ExpectEPlusMinusOrInitialExponent", push)
           ELSE NumberDone(s, i, number_buf)
      [] state = "ExpectMantissaOrDotOrE" ->
           IF i > Len(s) THEN NumberDone(s, i, number_buf)
           ELSE IF IsDigit(b) THEN NumberLoop(s, i + 1, "ExpectMantissaOrDotOrE", push)
           ELSE IF b = DOT THEN NumberLoop(s, i + 1, "ExpectFractional", push)
           ELSE IF IsE(b) THEN NumberLoop(s, i + 1, "ExpectEPlusMinusOrInitialExponent", push)
           ELSE NumberDone(s, i, number_buf)
      [] state = "ExpectFractional" ->
           IF i > Len(s) THEN EofErr(s)
           ELSE IF IsDigit(b) THEN NumberLoop(s, i + 1, "ExpectFractionalOrE", push)
           ELSE InvalidNumberCharacter(b, i)
      [] state = "ExpectFractionalOrE" ->
           IF i > Len(s) THEN NumberDone(s, i, number_buf)
           ELSE IF IsDigit(b) THEN NumberLoop(s, i + 1, "ExpectFractionalOrE", push)
           ELSE IF IsE(b) THEN NumberLoop(s, i + 1, "ExpectEPlusMinusOrInitialExponent", push)
           ELSE NumberDone(s, i, number_buf)
      [] state = "ExpectEPlusMinusOrInitialExponent" ->
           IF i > Len(s) THEN EofErr(s)
           ELSE IF b = PLUS \/ b = MINUS THEN NumberLoop(s, i + 1, "ExpectInitialExponent", push)
           ELSE IF IsDigit(b) THEN NumberLoop(s, i + 1, "ExpectExponent", push)
           ELSE InvalidNumberCharacter(b, i)
      [] state = "ExpectInitialExponent" ->
           IF i > Len(s) THEN EofErr(s)
           ELSE IF IsDigit(b) THEN NumberLoop(s, i + 1, "ExpectExponent", push)
           ELSE InvalidNumberCharacter(b, i)
      [] state = "ExpectExponent" ->
           IF i > Len(s) THEN NumberDone(s, i, number_buf)
           ELSE IF IsDigit(b) THEN NumberLoop(s, i + 1, "ExpectExponent", push)
           ELSE NumberDone(s, i, number_buf)

read_number_string(s) == NumberLoop(s, 1, "ExpectMinusOrZeroOrInitialMantissa", <<>>)

(***************************************************************************)
(* read_next_token                                                         *)
(***************************************************************************)
BAREWORD_TRUE == <<116, 114, 117, 101>>
BAREWORD_NULL == <<110, 117, 108, 108>>
BAREWORD_FALS == <<102, 97, 108, 115>>

\* read_bareword that takes "fals" for false without a fifth byte
read_bareword_FourBytes(s) ==
    IF Len(s) < 4 THEN EofErr(s)
    ELSE LET buf == SubSeq(s, 1, 4) IN
      IF buf = BAREWORD_TRUE THEN Res("Tok", "True", <<>>, 4, 4)
      ELSE IF buf = BAREWORD_NULL THEN Res("Tok", "Null", <<>>, 4, 4)
      ELSE IF buf = BAREWORD_FALS THEN Res("Tok", "False", <<>>, 4, 4)
      ELSE Res("Err", "InvalidBarewordBeginning", buf, 4, 4)

\* the bareword branch of read_next_token
read_bareword(s) ==
    IF Len(s) < 4 THEN EofErr(s)
    ELSE LET buf == SubSeq(s, 1, 4) IN
      IF buf = BAREWORD_TRUE THEN Res("Tok", "True", <<>>, 4, 4)
      ELSE IF buf = BAREWORD_NULL THEN Res("Tok", "Null", <<>>, 4, 4)
      ELSE IF buf = BAREWORD_FALS THEN
        IF Len(s) < 5 THEN EofErr(s)
        ELSE IF s[5] = LOWER_E THEN Res("Tok", "False", <<>>, 5, 5)
        ELSE Res("Err", "InvalidBarewordBeginning", SubSeq(s, 1, 5), 5, 5)
      ELSE Res("Err", "InvalidBarewordBeginning", buf, 4, 4)

\* move a result of a reader that started after w skipped bytes
Shift(r, w) == [r EXCEPT !.n = @ + w, !.look = @ + w]

\* read_next_token on a reader holding the bytes s
read_next_token(s) ==
    LET w == skip_whitespace(s)
        peek == From(s, w + 1)
    IN
    IF Len(peek) = 0 THEN Res("None", "None", <<>>, w, w + 1)
    ELSE IF get_simple_token(peek[1]) # "NoSimpleToken"
      THEN Res("Tok", get_simple_token(peek[1]), <<>>, w + 1, w + 1)
    ELSE IF peek[1] = QUOTE THEN Shift(read_string(peek), w)
    ELSE IF peek[1] = MINUS \/ IsDigit(peek[1]) THEN Shift(read_number_string(peek), w)
    ELSE Shift(read_bareword(peek), w)

(***************************************************************************)
(* interpret_string.  A result is [st, type, data]: st = "Ok" with the     *)
(* decoded text (a sequence of code points) as data, st = "Err" with the   *)
(* error kind as type and the JsonChars it carries as data, or             *)
(* st = "Panic" for a failed unwrap.                                       *)
(***************************************************************************)
IRes(st, type, data) == [st |-> st, type |-> type, data |-> data]

SURROGATE_FIRST == 55296
HIGH_SURROGATE_LAST == 56319
LOW_SURROGATE_FIRST == 56320
SURROGATE_LAST == 57343
CHAR_MAX == 1114111
SUPPLEMENTARY_BASE == 65536

\* char::from_u32(v) is Some
IsChar(v) == v <= CHAR_MAX /\ ~(v >= SURROGATE_FIRST /\ v <= SURROGATE_LAST)

\* b2 & 0b1100_0000 == 0b1000_0000
IsContinuation(b) == b \div 64 = 2

Bytes(bs) == [j \in 1..Len(bs) |-> JsonChar("Byte", bs[j])]

\* get_next_json_char_byte: the item at index i must be a continuation byte
get_next_json_char_byte(previous_bytes, json_chars, i) ==
    IF i > Len(json_chars)
    THEN IRes("Err", "InvalidUtf8Sequence", Bytes(previous_bytes))
    ELSE IF json_chars[i].k = "Byte" /\ IsContinuation(json_chars[i].v)
    THEN IRes("Ok", "Byte", <<json_chars[i].v>>)
    ELSE IRes("Err", "InvalidUtf8Sequence", Append(Bytes(previous_bytes), json_chars[i]))

\* the value of the fixed escapes
EscapeValue(k) ==
    CASE k = "EscapedQuote" -> QUOTE
      [] k = "EscapedBackslash" -> BACKSLASH
      [] k = "EscapedSlash" -> SLASH
      [] k = "EscapedBackspace" -> BACKSPACE
      [] k = "EscapedFormFeed" -> FORMFEED
      [] k = "EscapedLineFeed" -> LF
      [] k = "EscapedCarriageReturn" -> CR
      [] k = "EscapedTab" -> TAB

\* the number of bytes of the UTF-8 form that the leading byte b selects, 0 for none
Utf8Length(b) ==
    IF b \div 128 = 0 THEN 1
    ELSE IF b \div 32 = 6 THEN 2
    ELSE IF b \div 16 = 14 THEN 3
    ELSE IF b \div 8 = 30 THEN 4
    ELSE 0

\* the payload bits of the leading byte of an n byte form
LeadBits(b, n) ==
    IF n = 2 THEN b % 32 ELSE IF n = 3 THEN b % 16 ELSE b % 8

RECURSIVE Utf8Tail(_, _, _, _, _)
\* reads the continuation bytes left of a multi-byte form: seen are the bytes so far
Utf8Tail(json_chars, i, left, seen, char_value) ==
    IF left = 0 THEN
        IF IsChar(char_value) THEN IRes("Ok", "Char", <<char_value>>)
        ELSE IRes("Err", "Utf8SequenceProducedSurrogate", <<char_value>>)
    ELSE LET nb == get_next_json_char_byte(seen, json_chars, i) IN
        IF nb.st = "Err" THEN nb
        ELSE Utf8Tail(json_chars, i + 1, left - 1, Append(seen, nb.data[1]),
                      (char_value * 64) + (nb.data[1] % 64))

\* the code point of a surrogate pair with the supplementary base left out
SurrogatePair_NoBase(u, u2) ==
    (u - SURROGATE_FIRST) * 1024 + (u2 - LOW_SURROGATE_FIRST)

\* 0x1_0000 + (u32::from(u - 0xD800) << 10) + u32::from(u2 - 0xDC00)
SurrogatePair(u, u2) ==
    SUPPLEMENTARY_BASE + (u - SURROGATE_FIRST) * 1024 + (u2 - LOW_SURROGATE_FIRST)

RECURSIVE InterpretLoop(_, _, _)
\* the while loop of interpret_string: i is the index of the next JsonChar
InterpretLoop(json_chars, i, chars) ==
    IF i > Len(json_chars) THEN IRes("Ok", "String", chars)
    ELSE LET json_char == json_chars[i]
             b == json_char.v
             u == json_char.v
         IN
      IF json_char.k = "Byte" THEN
        IF Utf8Length(b) = 1 THEN InterpretLoop(json_chars, i + 1, Append(chars, b))
        ELSE IF Utf8Length(b) = 0 THEN IRes("Err", "InvalidUtf8Sequence", <<json_char>>)
        ELSE LET c == Utf8Tail(json_chars, i + 1, Utf8Length(b) - 1, <<b>>,
                               LeadBits(b, Utf8Length(b))) IN
          IF c.st = "Err" THEN c
          ELSE InterpretLoop(json_chars, i + Utf8Length(b), Append(chars, c.data[1]))
      ELSE IF json_char.k = "UnicodeEscape" THEN
        IF u >= SURROGATE_FIRST /\ u <= HIGH_SURROGATE_LAST THEN
          IF i + 1 > Len(json_chars)
          THEN IRes("Err", "InvalidUtf16SurrogateSequence", <<json_char>>)
          ELSE LET other == json_chars[i + 1]
                   u2 == other.v
                   char_value == SurrogatePair(u, u2)
               IN
            IF other.k = "UnicodeEscape" /\ u2 >= LOW_SURROGATE_FIRST /\ u <= SURROGATE_LAST
            THEN IF IsChar(char_value)
                 THEN InterpretLoop(json_chars, i + 2, Append(chars, char_value))
                 ELSE IRes("Panic", "unwrap", <<json_char, other>>)
            ELSE IRes("Err", "InvalidUtf16SurrogateSequence", <<json_char, other>>)
        ELSE IF u >= LOW_SURROGATE_FIRST /\ u <= SURROGATE_LAST
        THEN IRes("Err", "InvalidUtf16SurrogateSequence", <<json_char>>)
        ELSE InterpretLoop(json_chars, i + 1, Append(chars, u))
      ELSE InterpretLoop(json_chars, i + 1, Append(chars, EscapeValue(json_char.k)))

\* the text of a string is its characters as written, not decoded
interpret_string_Undecoded(json_chars) == IRes("Ok", "String", json_chars)

interpret_string(json_chars) == InterpretLoop(json_chars, 1, <<>>)

(***************************************************************************)
(* verify: the container stack and the expectation mask                    *)
(***************************************************************************)
\* a JsonToken; NoToken while no token is held
Token(type, data) == [type |-> type, data |-> data]

NoToken == Token("NoToken", <<>>)

\* JsonStackValue::Array(JsonArray::default())
NewArray == [kind |-> "Array", current_index |-> 0, known_keys |-> {}, current_key |-> <<>>]

\* JsonStackValue::Object(JsonObject::default()); current_key is <<>> for None, <<k>> for Some(k)
NewObject == [kind |-> "Object", current_index |-> 0, known_keys |-> {}, current_key |-> <<>>]

\* json_stack.last()
Last(stack) == stack[Len(stack)]

\* json_stack.pop(): the stack that is left
Popped(stack) == SubSeq(stack, 1, Len(stack) - 1)

\* json_stack.last_mut() assigned
WithLast(stack, frame) == [stack EXCEPT ![Len(stack)] = frame]

\* a reader that takes the end of the delivered bytes for the end of the input
Determined_ShortRead(r) == TRUE

\* the reader can answer r without waiting for bytes that were not delivered yet
Determined(r) == r.look <= Len(input) \/ eof

\* BufRead::consume
Consume(n) == input' = From(input, n + 1)

\* return false / true, or a panic
Return(v) == /\ result' = v
             /\ pc' = "done"

\* the next iteration of the token loop
Continue == /\ result' = result
            /\ tok' = NoToken
            /\ pc' = "loop"

\* break out of the token loop
Break == /\ result' = result
         /\ tok' = NoToken
         /\ pc' = "post"

\* WhatsNext with the object arm copied from the array arm
WhatsNext_ArrayArmTwice(stack) ==
    /\ json_stack' = stack
    /\ IF stack = <<>> THEN expects' = expects /\ Break
       ELSE expects' = {"COMMA", "CLOSING_BRACKET"} /\ Continue

\* WhatsNext that reads on for another value when the stack is empty
WhatsNext_NoStop(stack) ==
    /\ json_stack' = stack
    /\ IF stack = <<>> THEN expects' = {"VALUE"} /\ Continue
       ELSE IF Last(stack).kind = "Array"
         THEN expects' = {"COMMA", "CLOSING_BRACKET"} /\ Continue
         ELSE expects' = {"COMMA", "CLOSING_BRACE"} /\ Continue

\* "what's next?" once a value is complete and stack is what is left of the stack
WhatsNext(stack) ==
    /\ json_stack' = stack
    /\ IF stack = <<>> THEN expects' = expects /\ Break
       ELSE IF Last(stack).kind = "Array"
         THEN expects' = {"COMMA", "CLOSING_BRACKET"} /\ Continue
         ELSE expects' = {"COMMA", "CLOSING_BRACE"} /\ Continue

\* eprintln!("obtained {:?}, expected {:?}", tok, expects); return false
Reject == /\ Return("false")
          /\ UNCHANGED <<json_stack, expects, tok>>

\* panic!("parser expects .. but top stack value is {:?}", other), or a failed unwrap
Panic == /\ Return("panic")
         /\ UNCHANGED <<json_stack, expects, tok>>

\* a key looked up in the key sets of all the open frames
KnownKey_AnyFrame(obj, processed_string) ==
    \E i \in 1..Len(json_stack) : processed_string \in json_stack[i].known_keys

\* obj.known_keys.contains(&processed_string)
KnownKey(obj, processed_string) == processed_string \in obj.known_keys

\* obj.known_keys.insert(..); obj.current_key = Some(..)
InsertKey(obj, processed_string) ==
    [obj EXCEPT !.known_keys = @ \cup {processed_string},
                !.current_key = <<processed_string>>]

\* let tok = match read_next_token(&mut json_reader): a token, Ok(None) => break,
\* Err(e) => return false
ReadNextToken ==
    /\ pc = "loop"
    /\ LET r == read_next_token(input) IN
         /\ Determined(r)
         /\ Consume(r.n)
         /\ IF r.st = "Tok" THEN
              /\ tok' = Token(r.type, r.data)
              /\ pc' = "match"
              /\ result' = result
            ELSE IF r.st = "None" THEN Break
            ELSE tok' = tok /\ Return("false")
    /\ UNCHANGED <<eof, whole, rest, json_stack, expects>>

\* TokenString that decodes a string only where a key is expected
TokenString_ValueUndecoded ==
    /\ pc = "match"
    /\ tok.type = "String"
    /\ LET ps == interpret_string(tok.data) IN
         /\ IF "KEY" \in expects THEN
              IF ps.st = "Panic" THEN Panic
              ELSE IF ps.st = "Err" THEN Reject
              ELSE IF json_stack # <<>> /\ Last(json_stack).kind = "Object" THEN
                IF KnownKey(Last(json_stack), ps.data) THEN Reject
                ELSE /\ json_stack' = WithLast(json_stack, InsertKey(Last(json_stack), ps.data))
                     /\ expects' = {"COLON"}
                     /\ Continue
              ELSE Panic
            ELSE IF "VALUE" \in expects THEN WhatsNext(json_stack)
            ELSE Reject
    /\ UNCHANGED <<input, eof, whole, rest>>

\* JsonToken::String(s)
TokenString ==
    /\ pc = "match"
    /\ tok.type = "String"
    /\ LET ps == interpret_string(tok.data) IN
         /\ IF ps.st = "Panic" THEN Panic
            ELSE IF ps.st = "Err" THEN Reject
            ELSE IF "KEY" \in expects THEN
              IF json_stack # <<>> /\ Last(json_stack).kind = "Object" THEN
                IF KnownKey(Last(json_stack), ps.data) THEN Reject
                ELSE /\ json_stack' = WithLast(json_stack, InsertKey(Last(json_stack), ps.data))
                     /\ expects' = {"COLON"}
                     /\ Continue
              ELSE Panic
            ELSE IF "VALUE" \in expects THEN WhatsNext(json_stack)
            ELSE Reject
    /\ UNCHANGED <<input, eof, whole, rest>>

\* TokenScalar without the test of the mask
TokenScalar_NoMaskTest ==
    /\ pc = "match"
    /\ tok.type \in {"Null", "True", "False", "Number"}
    /\ WhatsNext(json_stack)
    /\ UNCHANGED <<input, eof, whole, rest>>

\* JsonToken::Null|JsonToken::True|JsonToken::False|JsonToken::Number(_)
TokenScalar ==
    /\ pc = "match"
    /\ tok.type \in {"Null", "True", "False", "Number"}
    /\ IF "VALUE" \notin expects THEN Reject ELSE WhatsNext(json_stack)
    /\ UNCHANGED <<input, eof, whole, rest>>

\* TokenColon leaving the mask empty
TokenColon_ClearsMask ==
    /\ pc = "match"
    /\ tok.type = "Colon"
    /\ IF "COLON" \notin expects THEN Reject
       ELSE IF json_stack # <<>> /\ Last(json_stack).kind = "Object"
         THEN expects' = {} /\ Continue /\ UNCHANGED json_stack
         ELSE Panic
    /\ UNCHANGED <<input, eof, whole, rest>>

\* JsonToken::Colon
TokenColon ==
    /\ pc = "match"
    /\ tok.type = "Colon"
    /\ IF "COLON" \notin expects THEN Reject
       ELSE IF json_stack # <<>> /\ Last(json_stack).kind = "Object"
         THEN expects' = {"VALUE"} /\ Continue /\ UNCHANGED json_stack
         ELSE Panic
    /\ UNCHANGED <<input, eof, whole, rest>>

\* bounds of the model: nesting depth, array index, bytes delivered ahead of the program
MaxDepth == 2
MaxIndex == 1
MaxAhead == 2

\* TokenComma with the mask of an opening token: a closing token may follow
TokenComma_KeepsClosing ==
    /\ pc = "match"
    /\ tok.type = "Comma"
    /\ IF "COMMA" \notin expects THEN Reject
       ELSE IF json_stack = <<>> THEN Panic
       ELSE IF Last(json_stack).kind = "Array" THEN
         /\ Last(json_stack).current_index < MaxIndex
         /\ json_stack' = WithLast(json_stack,
                [Last(json_stack) EXCEPT !.current_index = @ + 1])
         /\ expects' = {"VALUE", "CLOSING_BRACKET"}
         /\ Continue
       ELSE
         /\ json_stack' = WithLast(json_stack, [Last(json_stack) EXCEPT !.current_key = <<>>])
         /\ expects' = {"KEY", "CLOSING_BRACE"}
         /\ Continue
    /\ UNCHANGED <<input, eof, whole, rest>>

\* JsonToken::Comma
TokenComma ==
    /\ pc = "match"
    /\ tok.type = "Comma"
    /\ IF "COMMA" \notin expects THEN Reject
       ELSE IF json_stack = <<>> THEN Panic
       ELSE IF Last(json_stack).kind = "Array" THEN
         /\ Last(json_stack).current_index < MaxIndex
         /\ json_stack' = WithLast(json_stack,
                [Last(json_stack) EXCEPT !.current_index = @ + 1])
         /\ expects' = {"VALUE"}
         /\ Continue
       ELSE
         /\ json_stack' = WithLast(json_stack, [Last(json_stack) EXCEPT !.current_key = <<>>])
         /\ expects' = {"KEY"}
         /\ Continue
    /\ UNCHANGED <<input, eof, whole, rest>>

\* JsonToken::OpeningBracket
TokenOpeningBracket ==
    /\ pc = "match"
    /\ tok.type = "OpeningBracket"
    /\ IF "VALUE" \notin expects THEN Reject
       ELSE /\ Len(json_stack) < MaxDepth
            /\ json_stack' = Append(json_stack, NewArray)
            /\ expects' = {"VALUE", "CLOSING_BRACKET"}
            /\ Continue
    /\ UNCHANGED <<input, eof, whole, rest>>

\* TokenClosingBracket that pops and keeps the mask it had
TokenClosingBracket_KeepMask ==
    /\ pc = "match"
    /\ tok.type = "ClosingBracket"
    /\ IF "CLOSING_BRACKET" \notin expects THEN Reject
       ELSE IF json_stack # <<>> /\ Last(json_stack).kind = "Array"
         THEN /\ json_stack' = Popped(json_stack)
              /\ expects' = expects
              /\ IF Popped(json_stack) = <<>> THEN Break ELSE Continue
         ELSE Panic
    /\ UNCHANGED <<input, eof, whole, rest>>

\* JsonToken::ClosingBracket
TokenClosingBracket ==
    /\ pc = "match"
    /\ tok.type = "ClosingBracket"
    /\ IF "CLOSING_BRACKET" \notin expects THEN Reject
       ELSE IF json_stack # <<>> /\ Last(json_stack).kind = "Array"
         THEN WhatsNext(Popped(json_stack))
         ELSE Panic
    /\ UNCHANGED <<input, eof, whole, rest>>

\* JsonToken::OpeningBrace
TokenOpeningBrace ==
    /\ pc = "match"
    /\ tok.type = "OpeningBrace"
    /\ IF "VALUE" \notin expects THEN Reject
       ELSE /\ Len(json_stack) < MaxDepth
            /\ json_stack' = Append(json_stack, NewObject)
            /\ expects' = {"KEY", "CLOSING_BRACE"}
            /\ Continue
    /\ UNCHANGED <<input, eof, whole, rest>>

\* JsonToken::ClosingBrace
TokenClosingBrace ==
    /\ pc = "match"
    /\ tok.type = "ClosingBrace"
    /\ IF "CLOSING_BRACE" \notin expects THEN Reject
       ELSE IF json_stack # <<>> /\ Last(json_stack).kind = "Object"
         THEN WhatsNext(Popped(json_stack))
         ELSE Panic
    /\ UNCHANGED <<input, eof, whole, rest>>

\* PostLoop without the peek for trailing garbage
PostLoop_NoPeek ==
    /\ pc = "post"
    /\ IF Len(json_stack) > 0 THEN
         /\ Return("false")
         /\ UNCHANGED input
       ELSE LET w == skip_whitespace(input) IN
         /\ w + 1 <= Len(input) \/ eof
         /\ Consume(w)
         /\ Return("true")
    /\ UNCHANGED <<eof, whole, rest, json_stack, expects, tok>>

\* PostLoop without the check of the stack
PostLoop_NoStackCheck ==
    /\ pc = "post"
    /\ LET w == skip_whitespace(input) IN
         /\ w + 1 <= Len(input) \/ eof
         /\ Consume(w)
         /\ IF w < Len(input) THEN Return("false") ELSE Return("true")
    /\ UNCHANGED <<eof, whole, rest, json_stack, expects, tok>>

\* the code of verify after the token loop
PostLoop ==
    /\ pc = "post"
    /\ IF Len(json_stack) > 0 THEN
         /\ Return("false")
         /\ UNCHANGED input
       ELSE LET w == skip_whitespace(input) IN
         /\ w + 1 <= Len(input) \/ eof
         /\ Consume(w)
         /\ IF w < Len(input) THEN Return("false") ELSE Return("true")
    /\ UNCHANGED <<eof, whole, rest, json_stack, expects, tok>>

\* the program waits for the source: a read needs bytes that were not delivered yet
Waiting ==
    /\ ~eof
    /\ \/ pc = "loop" /\ ~Determined(read_next_token(input))
       \/ pc = "post" /\ json_stack = <<>> /\ skip_whitespace(input) = Len(input)

(***************************************************************************)
(* The byte source of a streamed document.  It delivers one of Chunks at a *)
(* time, when the program waits for bytes, or ends.                        *)
(***************************************************************************)
KEY_A == <<34, 97, 34>>                                \* "a"
KEY_A_UNICODE == <<34, 92, 117, 48, 48, 54, 49, 34>>   \* "a"
KEY_SLASH == <<34, 47, 34>>                            \* "/"
KEY_SLASH_ESCAPED == <<34, 92, 47, 34>>                \* "\/"
KEY_SLASH_UNICODE == <<34, 92, 117, 48, 48, 50, 70, 34>>  \* "/"

STRING_RAW_TAB == <<34, 9, 34>>                      \* a string holding a raw tab
STRING_LONE_SURROGATE == <<34, 92, 117, 68, 56, 48, 48, 34>>   \* "\uD800"
STRING_BAD_PAIR == <<34, 92, 117, 68, 66, 70, 70, 92, 117, 70, 70, 70, 70, 34>>  \* "\uDBFF\uFFFF"
KEY_B == <<34, 98, 34>>                              \* "b"
KEY_EMOJI == <<34, 240, 159, 152, 128, 34>>          \* U+1F600 as four raw bytes
KEY_EMOJI_ESCAPED == <<34, 92, 117, 68, 56, 51, 68, 92, 117, 68, 69, 48, 48, 34>>  \* "\uD83D\uDE00"

Chunks ==
    { <<LBRACKET>>, <<RBRACKET>>, <<LBRACE>>, <<RBRACE>>, <<COLON_B>>, <<COMMA_B>>,
      <<SPACE>>, <<DIGIT0>>, <<MINUS>>, BAREWORD_TRUE,
      KEY_A, KEY_A_UNICODE, KEY_SLASH, KEY_SLASH_ESCAPED, KEY_SLASH_UNICODE,
      STRING_LONE_SURROGATE, STRING_BAD_PAIR }

\* the source delivers more bytes
Feed ==
    /\ Waiting
    /\ \E c \in Chunks :
         /\ Len(input) < MaxAhead
         /\ input' = input \o c
    /\ UNCHANGED <<eof, whole, rest, json_stack, expects, tok, pc, result>>

\* the source ends
Close ==
    /\ Waiting
    /\ eof' = TRUE
    /\ UNCHANGED <<input, whole, rest, json_stack, expects, tok, pc, result>>

\* verify(BufReader::new(file)): nothing delivered yet
Init ==
    /\ input = <<>>
    /\ eof = FALSE
    /\ whole = <<>>
    /\ rest = <<>>
    /\ json_stack = <<>>
    /\ expects = {"VALUE"}
    /\ tok = NoToken
    /\ pc = "loop"
    /\ result = "none"

Next ==
    \/ Feed
    \/ Close
    \/ ReadNextToken
    \/ TokenString
    \/ TokenScalar
    \/ TokenColon
    \/ TokenComma
    \/ TokenOpeningBracket
    \/ TokenClosingBracket
    \/ TokenOpeningBrace
    \/ TokenClosingBrace
    \/ PostLoop

Spec == Init /\ [][Next]_vars

(***************************************************************************)
(* Documents held in memory: verify(Cursor::new(json)).  The whole         *)
(* document is delivered from the start.                                   *)
(***************************************************************************)
MaxPieces == 3

Pieces ==
    { <<LBRACKET>>, <<RBRACKET>>, <<LBRACE>>, <<RBRACE>>, <<COLON_B>>, <<COMMA_B>>,
      <<SPACE>>, <<DIGIT0>>, <<DIGIT1>>, <<MINUS>>, <<DOT>>, <<LOWER_E>>,
      <<QUOTE>>, BAREWORD_TRUE, KEY_A, KEY_A_UNICODE,
      STRING_RAW_TAB, STRING_LONE_SURROGATE, STRING_BAD_PAIR }

\* the documents of at most three pieces
ShortDocs == {a \o b \o c : a, b, c \in Pieces \cup {<<>>}}

\* the pieces of the longer documents
CorePieces ==
    { <<LBRACKET>>, <<RBRACKET>>, <<LBRACE>>, <<RBRACE>>, <<COLON_B>>, <<COMMA_B>>,
      <<SPACE>>, <<DIGIT0>>, <<QUOTE>>, BAREWORD_TRUE, KEY_A,
      STRING_LONE_SURROGATE, STRING_BAD_PAIR }

RECURSIVE Concats(_)
\* the concatenations of at most n of CorePieces
Concats(n) ==
    IF n = 0 THEN {<<>>}
    ELSE LET shorter == Concats(n - 1) IN
         shorter \cup {d \o p : d \in shorter, p \in CorePieces}

KeyStrings ==
    {KEY_A, KEY_A_UNICODE, KEY_SLASH, KEY_SLASH_ESCAPED, KEY_SLASH_UNICODE, KEY_B,
     KEY_EMOJI, KEY_EMOJI_ESCAPED}

MemberValues ==
    { <<DIGIT0>>, KEY_A, <<LBRACKET, RBRACKET>>,
      <<LBRACE>> \o KEY_A \o <<COLON_B, DIGIT1, RBRACE>> }

Member(k, v) == k \o <<COLON_B>> \o v

Object2(k1, v1, k2, v2) ==
    <<LBRACE>> \o Member(k1, v1) \o <<COMMA_B>> \o Member(k2, v2) \o <<RBRACE>>

Object3(k1, k2, k3) ==
    <<LBRACE>> \o Member(k1, <<DIGIT0>>) \o <<COMMA_B>> \o Member(k2, <<DIGIT0>>)
               \o <<COMMA_B>> \o Member(k3, <<DIGIT0>>) \o <<RBRACE>>

InArray(d) == <<LBRACKET>> \o d \o <<RBRACKET>>

InObject(d) == <<LBRACE>> \o Member(KEY_A, d) \o <<RBRACE>>

\* objects of two members
FlatDocs ==
    {Object2(k1, v1, k2, v2) : k1 \in KeyStrings, v1 \in MemberValues,
                               k2 \in KeyStrings, v2 \in MemberValues}

\* objects of two and three members, at the top level and nested
MemberDocs ==
    LET plain == {Object2(k1, <<DIGIT0>>, k2, <<DIGIT0>>) : k1 \in KeyStrings, k2 \in KeyStrings}
        three == {Object3(k1, k2, k3) : k1 \in KeyStrings, k2 \in KeyStrings, k3 \in KeyStrings}
    IN FlatDocs \cup three \cup {InArray(d) : d \in plain} \cup {InObject(d) : d \in plain}

\* the bytes before a value: at the top level, as an element of an array, as the
\* value of a member of an object, nested and after whitespace
ValueContexts ==
    { <<>>, <<SPACE>>, <<LBRACKET>>, <<LBRACKET, DIGIT1, COMMA_B>>, <<LBRACKET, LBRACKET>>,
      <<LBRACE>> \o KEY_A \o <<COLON_B>>,
      <<LBRACE>> \o KEY_A \o <<COLON_B, SPACE>>,
      <<LBRACE>> \o KEY_A \o <<COLON_B, DIGIT1, COMMA_B>> \o KEY_B \o <<COLON_B>>,
      <<LBRACKET, LBRACE>> \o KEY_A \o <<COLON_B>>,
      <<LBRACE>> \o KEY_A \o <<COLON_B, LBRACKET>> }

\* numbers written with a leading zero
LeadingZeroNumbers ==
    { <<DIGIT0, DIGIT1>>, <<DIGIT0, DIGIT0>>, <<MINUS, DIGIT0, DIGIT1>>, <<DIGIT0, DIGIT9>>,
      <<DIGIT0, DIGIT1, DOT, DIGIT1>> }

\* documents that hold a number written with a leading zero where a value stands
LeadingZeroDocs ==
    {c \o z \o s : c \in ValueContexts, z \in LeadingZeroNumbers,
                   s \in {<<>>, <<RBRACKET>>, <<RBRACE>>, <<RBRACKET, RBRACKET>>,
                          <<RBRACKET, RBRACE>>, <<RBRACE, RBRACKET>>, <<COMMA_B, DIGIT1, RBRACKET>>}}

\* {"a":0}
OBJECT_A == <<LBRACE>> \o Member(KEY_A, <<DIGIT0>>) \o <<RBRACE>>

\* documents that repeat a key in different objects: nested, side by side, and
\* spelled differently
ScopedDocs ==
    { InObject(OBJECT_A),
      <<LBRACKET>> \o OBJECT_A \o <<COMMA_B>> \o OBJECT_A \o <<RBRACKET>>,
      <<LBRACE>> \o Member(KEY_A, OBJECT_A) \o <<COMMA_B>> \o Member(KEY_B, OBJECT_A) \o <<RBRACE>>,
      <<LBRACKET>> \o OBJECT_A \o <<COMMA_B, LBRACE>> \o Member(KEY_A_UNICODE, <<DIGIT0>>)
          \o <<RBRACE, RBRACKET>> }

\* {"a":{"b":0},"a":0}: the key of the outer object comes again after the inner
\* object was closed
OUTER_KEY_AGAIN ==
    <<LBRACE>> \o Member(KEY_A, <<LBRACE>> \o Member(KEY_B, <<DIGIT0>>) \o <<RBRACE>>)
        \o <<COMMA_B>> \o Member(KEY_A, <<DIGIT0>>) \o <<RBRACE>>

Docs ==
    {<<LBRACKET, RBRACKET, SPACE, LBRACKET>>, OUTER_KEY_AGAIN} \cup ScopedDocs \cup ShortDocs \cup Concats(MaxPieces) \cup MemberDocs \cup LeadingZeroDocs

InitDoc ==
    /\ whole \in Docs
    /\ rest = <<>>
    /\ input = whole
    /\ eof = TRUE
    /\ json_stack = <<>>
    /\ expects = {"VALUE"}
    /\ tok = NoToken
    /\ pc = "loop"
    /\ result = "none"

NextDoc ==
    \/ ReadNextToken
    \/ TokenString
    \/ TokenScalar
    \/ TokenColon
    \/ TokenComma
    \/ TokenOpeningBracket
    \/ TokenClosingBracket
    \/ TokenOpeningBrace
    \/ TokenClosingBrace
    \/ PostLoop

SpecDoc == InitDoc /\ [][NextDoc]_vars

\* the number of bytes of s that are in the set B
Count(s, B) == Cardinality({i \in 1..Len(s) : s[i] \in B})

\* the documents that the model can follow to their end: they open at most
\* MaxDepth containers and hold at most MaxIndex commas
DocsWithinBounds ==
    {d \in Docs : Count(d, {LBRACKET, LBRACE}) <= MaxDepth /\ Count(d, {COMMA_B}) <= MaxIndex}

InitFair ==
    /\ InitDoc
    /\ whole \in DocsWithinBounds

\* verify is sequential code: a step that can be taken is taken
FairSpecDoc == InitFair /\ [][NextDoc]_vars /\ WF_vars(NextDoc)

(***************************************************************************)
(* read_number_string called on its own, on a reader that holds all of the *)
(* bytes s: the token or the error it returns is kept in tok, result is    *)
(* "Tok" or "Err", and input is what the reader is left with.              *)
(***************************************************************************)
MaxNumberLen == 4

NumberBytes == {MINUS, PLUS, DOT, DIGIT0, DIGIT1, LOWER_E, UPPER_E, COMMA_B}

RECURSIVE ByteStrings(_)
\* the strings of at most n of NumberBytes
ByteStrings(n) ==
    IF n = 0 THEN {<<>>}
    ELSE LET shorter == ByteStrings(n - 1) IN
         shorter \cup {s \o <<b>> : s \in shorter, b \in NumberBytes}

NUMBER_ZERO == <<48>>                          \* 0
NUMBER_MINUS_ZERO == <<45, 48>>                \* -0
NUMBER_FRACTION == <<48, 46, 53>>              \* 0.5
NUMBER_EXPONENT == <<49, 101, 49, 48>>         \* 1e10
NUMBER_ALL_PARTS == <<45, 49, 46, 53, 69, 45, 51>>   \* -1.5E-3
NUMBER_NO_FRACTION == <<49, 46>>               \* 1.
NUMBER_NO_EXPONENT == <<49, 101>>              \* 1e

AcceptedNumbers ==
    {NUMBER_ZERO, NUMBER_MINUS_ZERO, NUMBER_FRACTION, NUMBER_EXPONENT, NUMBER_ALL_PARTS}

RejectedNumbers == {NUMBER_NO_FRACTION, NUMBER_NO_EXPONENT}

NumberInputs ==
    ByteStrings(MaxNumberLen) \cup AcceptedNumbers \cup RejectedNumbers
      \cup {n \o s : n \in AcceptedNumbers \cup RejectedNumbers,
                     s \in {<<COMMA_B>>, <<RBRACKET>>, <<SPACE>>, <<DOT>>, <<LOWER_E>>}}

InitNum ==
    /\ whole \in NumberInputs
    /\ rest = <<>>
    /\ input = whole
    /\ eof = TRUE
    /\ json_stack = <<>>
    /\ expects = {"VALUE"}
    /\ tok = NoToken
    /\ pc = "number"
    /\ result = "none"

\* read_number_string(&mut json_reader)
ReadNumberString ==
    /\ pc = "number"
    /\ LET r == read_number_string(input) IN
         /\ Consume(r.n)
         /\ tok' = Token(r.type, r.data)
         /\ result' = r.st
    /\ pc' = "returned"
    /\ UNCHANGED <<eof, whole, rest, json_stack, expects>>

NextNum == ReadNumberString

SpecNum == InitNum /\ [][NextNum]_vars

(***************************************************************************)
(* A document read through a BufReader whose fill_buf returns the bytes of *)
(* the source in pieces of any length: rest holds the bytes that were not  *)
(* delivered yet.                                                          *)

(***************************************************************************)
(* interpret_string alone: whole holds the JsonChars of a String token,    *)
(* and the call leaves what it returned in tok and result.                 *)
(***************************************************************************)
UE(u) == JsonChar("UnicodeEscape", u)

HighSurrogates == SURROGATE_FIRST..HIGH_SURROGATE_LAST
LowSurrogates == LOW_SURROGATE_FIRST..SURROGATE_LAST
CodeUnits == 0..65535

HighSample ==
    {SURROGATE_FIRST, SURROGATE_FIRST + 1, SURROGATE_FIRST + 700,
     HIGH_SURROGATE_LAST - 1, HIGH_SURROGATE_LAST}
LowSample ==
    {LOW_SURROGATE_FIRST, LOW_SURROGATE_FIRST + 1, LOW_SURROGATE_FIRST + 500,
     SURROGATE_LAST - 1, SURROGATE_LAST}

\* a high and a low surrogate escape: every high with some lows, every low with some highs
SurrogatePairs ==
    {<<UE(h), UE(l)>> : h \in HighSurrogates, l \in LowSample}
      \cup {<<UE(h), UE(l)>> : h \in HighSample, l \in LowSurrogates}

\* what may follow a high surrogate escape and is not a low surrogate escape
BadFollowers ==
    { <<>>, <<JsonChar("Byte", LOWER_A)>>, <<JsonChar("EscapedTab", 0)>>,
      <<UE(SURROGATE_LAST + 1)>>, <<UE(65535)>>, <<UE(LOWER_A)>>,
      <<UE(SURROGATE_FIRST)>>, <<UE(HIGH_SURROGATE_LAST)>>,
      <<UE(LOW_SURROGATE_FIRST - 1)>> }

BrokenPairs ==
    {<<UE(h)>> \o f : h \in HighSurrogates, f \in BadFollowers}

LoneLows ==
    {<<UE(l)>> : l \in LowSurrogates}
      \cup {<<UE(l), UE(h)>> : l \in LowSample, h \in HighSample}
      \cup {<<JsonChar("Byte", LOWER_A), UE(l)>> : l \in LowSample}

PlainEscapes == {<<UE(u)>> : u \in CodeUnits \ (SURROGATE_FIRST..SURROGATE_LAST)}

\* the UTF-8 form of a code point of four bytes (RFC 3629, section 3)
Utf8Encode4(cp) ==
    << 240 + (cp \div 262144), 128 + ((cp \div 4096) % 64),
       128 + ((cp \div 64) % 64), 128 + (cp % 64) >>

RawSupplementary ==
    {Bytes(Utf8Encode4(SUPPLEMENTARY_BASE + (p[1].v % 1024) * 1024 + (p[2].v % 1024))) :
        p \in SurrogatePairs}

\* a pair, a broken pair or a lone low surrogate inside other characters
Embedded ==
    {<<JsonChar("Byte", LOWER_A)>> \o m \o <<UE(LOWER_A)>> :
        m \in {<<UE(h), UE(l)>> : h \in HighSample, l \in LowSample}
              \cup {<<UE(h)>> \o f : h \in HighSample, f \in BadFollowers}}

\* leading bytes of every class: 2, 3 and 4 byte forms, a stray continuation
\* byte, bytes that start no form, and an ASCII byte
Utf8Leads == {194, 223, 224, 237, 239, 240, 244, 247, 192, 128, 248, 255, LOWER_A}

\* what may stand at a continuation position
Utf8Followers ==
    { JsonChar("Byte", 128), JsonChar("Byte", 144), JsonChar("Byte", 160),
      JsonChar("Byte", 191), JsonChar("Byte", LOWER_A), JsonChar("Byte", 194),
      JsonChar("EscapedTab", 0), UE(128) }

\* a leading byte and up to three characters after it
Utf8Forms ==
    {<<JsonChar("Byte", b)>> : b \in Utf8Leads}
      \cup {<<JsonChar("Byte", b), f1>> : b \in Utf8Leads, f1 \in Utf8Followers}
      \cup {<<JsonChar("Byte", b), f1, f2>> : b \in Utf8Leads, f1, f2 \in Utf8Followers}
      \cup {<<JsonChar("Byte", b), f1, f2, f3>> :
              b \in Utf8Leads, f1, f2, f3 \in Utf8Followers}

InitStr ==
    /\ \/ whole \in SurrogatePairs
       \/ whole \in BrokenPairs
       \/ whole \in LoneLows
       \/ whole \in PlainEscapes
       \/ whole \in RawSupplementary
       \/ whole \in Embedded
       \/ whole \in Utf8Forms
    /\ rest = <<>>
    /\ input = <<>>
    /\ eof = TRUE
    /\ json_stack = <<>>
    /\ expects = {"VALUE"}
    /\ tok = NoToken
    /\ pc = "string"
    /\ result = "none"

\* interpret_string(s)
InterpretString ==
    /\ pc = "string"
    /\ LET ps == interpret_string(whole) IN
         /\ tok' = Token(ps.type, ps.data)
         /\ result' = ps.st
    /\ pc' = "interpreted"
    /\ UNCHANGED <<input, eof, whole, rest, json_stack, expects>>

NextStr == InterpretString

SpecStr == InitStr /\ [][NextStr]_vars

(***************************************************************************)
SplitDocs ==
    { <<SPACE, SPACE, LBRACKET, SPACE, LF>> \o BAREWORD_TRUE \o <<COMMA_B, SPACE, SPACE>>
          \o KEY_A_UNICODE \o <<RBRACKET, SPACE, SPACE>>,
      <<LBRACE>> \o KEY_SLASH_ESCAPED \o <<COLON_B, SPACE>> \o NUMBER_ALL_PARTS \o <<RBRACE>>,
      BAREWORD_FALS \o <<LOWER_E, SPACE, SPACE>>,
      <<LBRACKET, DIGIT1, SPACE, SPACE>> \o BAREWORD_NULL \o <<RBRACKET>>,
      <<LBRACE, RBRACE, SPACE, SPACE, LBRACE>>,
      KEY_EMOJI_ESCAPED \o <<SPACE>>,
      <<LBRACKET>> \o BAREWORD_FALS \o <<RBRACKET>>,
      <<LBRACKET, DIGIT1, DOT>>,
      <<LBRACKET>> \o KEY_A \o <<SPACE, SPACE>>,
      STRING_BAD_PAIR,
      <<SPACE, SPACE>> }

InitSplit ==
    /\ whole \in SplitDocs
    /\ rest = whole
    /\ input = <<>>
    /\ eof = FALSE
    /\ json_stack = <<>>
    /\ expects = {"VALUE"}
    /\ tok = NoToken
    /\ pc = "loop"
    /\ result = "none"

\* fill_buf returns some more bytes of the source
FillBuf ==
    /\ Waiting
    /\ \E k \in 1..Len(rest) :
         /\ input' = input \o SubSeq(rest, 1, k)
         /\ rest' = From(rest, k + 1)
    /\ UNCHANGED <<eof, whole, json_stack, expects, tok, pc, result>>

\* fill_buf returns the empty buffer: the source is at its end
FillBufEnd ==
    /\ Waiting
    /\ rest = <<>>
    /\ eof' = TRUE
    /\ UNCHANGED <<input, whole, rest, json_stack, expects, tok, pc, result>>

NextSplit ==
    \/ FillBuf
    \/ FillBufEnd
    \/ ReadNextToken
    \/ TokenString
    \/ TokenScalar
    \/ TokenColon
    \/ TokenComma
    \/ TokenOpeningBracket
    \/ TokenClosingBracket
    \/ TokenOpeningBrace
    \/ TokenClosingBrace
    \/ PostLoop

SpecSplit == InitSplit /\ [][NextSplit]_vars

(***************************************************************************)
(* The grammar of RFC 8259, as a recogniser over the bytes of a document.  *)
(* It is written from the RFC and shares nothing with the readers above.   *)
(* A result is [next, uniq, wf]: next is the index after the construct, or *)
(* 0 when the bytes at i are no such construct; uniq says that no object   *)
(* in it repeats a name; wf says that the \u escapes of its strings are    *)
(* well-formed UTF-16 (no surrogate without its partner).                  *)
(***************************************************************************)
At(s, i) == IF i >= 1 /\ i <= Len(s) THEN s[i] ELSE -1

RefResult(next, uniq, wf) == [next |-> next, uniq |-> uniq, wf |-> wf]

RefFail == RefResult(0, TRUE, TRUE)

RECURSIVE RefWs(_, _)
\* ws = *( %x20 / %x09 / %x0A / %x0D ): the index after it
RefWs(s, i) == IF At(s, i) \in {32, 9, 10, 13} THEN RefWs(s, i + 1) ELSE i

RECURSIVE RefDigits(_, _)
\* *DIGIT: the index after it
RefDigits(s, i) == IF At(s, i) \in 48..57 THEN RefDigits(s, i + 1) ELSE i

\* number = [ minus ] int [ frac ] [ exp ]: the index after it, 0 for none
RefNumber(s, i) ==
    LET a == IF At(s, i) = 45 THEN i + 1 ELSE i
        b == IF At(s, a) = 48 THEN a + 1
             ELSE IF At(s, a) \in 49..57 THEN RefDigits(s, a + 1)
             ELSE 0
        c == IF At(s, b) = 46 /\ RefDigits(s, b + 1) > b + 1 THEN RefDigits(s, b + 1) ELSE b
        d == IF At(s, c + 1) \in {43, 45} THEN c + 2 ELSE c + 1
        e == IF At(s, c) \in {69, 101} /\ RefDigits(s, d) > d THEN RefDigits(s, d) ELSE c
    IN IF b = 0 THEN 0 ELSE e

RefIsTail(s, i) == At(s, i) \in 128..191

\* the length of the well-formed UTF-8 sequence (RFC 3629) at index i, 0 for none
RefUtf8Len(s, i) ==
    LET b1 == At(s, i)
        b2 == At(s, i + 1)
    IN
    IF b1 \in 0..127 THEN 1
    ELSE IF b1 \in 194..223 /\ RefIsTail(s, i + 1) THEN 2
    ELSE IF /\ \/ b1 = 224 /\ b2 \in 160..191
               \/ b1 \in 225..236 /\ b2 \in 128..191
               \/ b1 = 237 /\ b2 \in 128..159
               \/ b1 \in 238..239 /\ b2 \in 128..191
            /\ RefIsTail(s, i + 2) THEN 3
    ELSE IF /\ \/ b1 = 240 /\ b2 \in 144..191
               \/ b1 \in 241..243 /\ b2 \in 128..191
               \/ b1 = 244 /\ b2 \in 128..143
            /\ RefIsTail(s, i + 2) /\ RefIsTail(s, i + 3) THEN 4
    ELSE 0

\* the code point of the well-formed UTF-8 sequence of n bytes at index i
RefUtf8Value(s, i, n) ==
    IF n = 1 THEN s[i]
    ELSE IF n = 2 THEN (s[i] - 192) * 64 + (s[i + 1] - 128)
    ELSE IF n = 3 THEN (s[i] - 224) * 4096 + (s[i + 1] - 128) * 64 + (s[i + 2] - 128)
    ELSE (s[i] - 240) * 262144 + (s[i + 1] - 128) * 4096 + (s[i + 2] - 128) * 64
           + (s[i + 3] - 128)

RefHex(b) ==
    IF b \in 48..57 THEN b - 48
    ELSE IF b \in 65..70 THEN b - 55
    ELSE IF b \in 97..102 THEN b - 87
    ELSE -1

\* the value of the escape \uXXXX that starts (with its backslash) at index i, -1 for none
RefUnicodeEscape(s, i) ==
    IF /\ At(s, i) = 92 /\ At(s, i + 1) = 117
       /\ \A j \in 2..5 : RefHex(At(s, i + j)) >= 0
    THEN RefHex(s[i + 2]) * 4096 + RefHex(s[i + 3]) * 256 + RefHex(s[i + 4]) * 16
           + RefHex(s[i + 5])
    ELSE -1

\* the character that the escape letter b stands for, -1 for none
RefEscape(b) ==
    CASE b = 34 -> 34
      [] b = 92 -> 92
      [] b = 47 -> 47
      [] b = 98 -> 8
      [] b = 102 -> 12
      [] b = 110 -> 10
      [] b = 114 -> 13
      [] b = 116 -> 9
      [] OTHER -> -1

RECURSIVE RefChars(_, _, _, _)
\* *char quotation-mark: [next, wf, text], text being the string's characters
RefChars(s, i, text, wf) ==
    LET b == At(s, i)
        u == RefUnicodeEscape(s, i)
        low == RefUnicodeEscape(s, i + 6)
    IN
    IF b = 34 THEN [next |-> i + 1, wf |-> wf, text |-> text]
    ELSE IF b = 92 THEN
      IF RefEscape(At(s, i + 1)) >= 0
      THEN RefChars(s, i + 2, Append(text, RefEscape(At(s, i + 1))), wf)
      ELSE IF u < 0 THEN [next |-> 0, wf |-> wf, text |-> text]
      ELSE IF u \in 55296..56319 /\ low \in 56320..57343
      THEN RefChars(s, i + 12, Append(text, 65536 + (u - 55296) * 1024 + (low - 56320)), wf)
      ELSE RefChars(s, i + 6, Append(text, u), wf /\ u \notin 55296..57343)
    ELSE IF b >= 32 /\ RefUtf8Len(s, i) > 0
      THEN RefChars(s, i + RefUtf8Len(s, i),
                    Append(text, RefUtf8Value(s, i, RefUtf8Len(s, i))), wf)
    ELSE [next |-> 0, wf |-> wf, text |-> text]

\* string = quotation-mark *char quotation-mark
RefString(s, i) ==
    IF At(s, i) = 34 THEN RefChars(s, i + 1, <<>>, TRUE)
    ELSE [next |-> 0, wf |-> TRUE, text |-> <<>>]

RefLiteral(s, i, word) ==
    IF i + Len(word) - 1 <= Len(s) /\ SubSeq(s, i, i + Len(word) - 1) = word
    THEN i + Len(word) ELSE 0

RECURSIVE RefValue(_, _)
RECURSIVE RefElements(_, _, _, _)
RECURSIVE RefMembers(_, _, _, _, _)

\* value = false / null / true / object / array / number / string
RefValue(s, i) ==
    LET b == At(s, i) IN
    IF b = 34 THEN RefResult(RefString(s, i).next, TRUE, RefString(s, i).wf)
    ELSE IF b = 91 THEN
      IF At(s, RefWs(s, i + 1)) = 93 THEN RefResult(RefWs(s, i + 1) + 1, TRUE, TRUE)
      ELSE RefElements(s, RefWs(s, i + 1), TRUE, TRUE)
    ELSE IF b = 123 THEN
      IF At(s, RefWs(s, i + 1)) = 125 THEN RefResult(RefWs(s, i + 1) + 1, TRUE, TRUE)
      ELSE RefMembers(s, RefWs(s, i + 1), {}, TRUE, TRUE)
    ELSE IF b = 116 THEN RefResult(RefLiteral(s, i, <<116, 114, 117, 101>>), TRUE, TRUE)
    ELSE IF b = 110 THEN RefResult(RefLiteral(s, i, <<110, 117, 108, 108>>), TRUE, TRUE)
    ELSE IF b = 102 THEN RefResult(RefLiteral(s, i, <<102, 97, 108, 115, 101>>), TRUE, TRUE)
    ELSE RefResult(RefNumber(s, i), TRUE, TRUE)

\* value *( value-separator value ) end-array, from the value at index i
RefElements(s, i, uniq, wf) ==
    LET v == RefValue(s, i)
        k == RefWs(s, v.next)
    IN
    IF v.next = 0 THEN RefFail
    ELSE IF At(s, k) = 44 THEN RefElements(s, RefWs(s, k + 1), uniq /\ v.uniq, wf /\ v.wf)
    ELSE IF At(s, k) = 93 THEN RefResult(k + 1, uniq /\ v.uniq, wf /\ v.wf)
    ELSE RefFail

\* member *( value-separator member ) end-object, from the member at index i;
\* names are the names of the members before it
RefMembers(s, i, names, uniq, wf) ==
    LET name == RefString(s, i)
        c == RefWs(s, name.next)
        v == RefValue(s, RefWs(s, c + 1))
        k == RefWs(s, v.next)
        u == uniq /\ v.uniq /\ name.text \notin names
        w == wf /\ v.wf /\ name.wf
    IN
    IF name.next = 0 \/ At(s, c) # 58 THEN RefFail
    ELSE IF v.next = 0 THEN RefFail
    ELSE IF At(s, k) = 44
      THEN RefMembers(s, RefWs(s, k + 1), names \cup {name.text}, u, w)
    ELSE IF At(s, k) = 125 THEN RefResult(k + 1, u, w)
    ELSE RefFail

\* JSON-text = ws value ws
RefText(s) ==
    LET v == RefValue(s, RefWs(s, 1)) IN
    IF v.next # 0 /\ RefWs(s, v.next) = Len(s) + 1 THEN v ELSE RefFail

\* s is a JSON text of the RFC 8259 grammar
Rfc8259(s) == RefText(s).next # 0


(***************************************************************************)
(* The tokenize mode of main: read_next_token is called on the reader      *)
(* until it returns none; an error ends the run.  tok holds what the last  *)
(* call returned and result how it returned ("Tok", "None" or "Err").      *)
(***************************************************************************)
\* the letters of true, null and false
BarewordLetters == {116, 114, 117, 101, 110, 108, 102, 97, 115}

\* what follows the four letters of a bareword
BarewordTails == {<<>>, <<LOWER_E>>, <<115>>, <<COMMA_B>>, <<SPACE>>, <<LOWER_E, COMMA_B>>}

BarewordInputs ==
    {<<a, b, c, d>> \o t : a, b, c, d \in BarewordLetters, t \in BarewordTails}
      \cup {<<a>> : a \in BarewordLetters}
      \cup {<<a, b>> : a, b \in BarewordLetters}
      \cup {<<SPACE, a, b, c>> : a, b, c \in BarewordLetters}

\* a quote, a backslash, the letter u, a letter that is an escape and a hex
\* digit, a digit, and a letter that is neither
StringBytes == {QUOTE, BACKSLASH, LOWER_U, LOWER_F, DIGIT0, 120}

\* hex digits of each kind, a letter that is none, a quote and a backslash
EscapeBytes == {DIGIT0, LOWER_F, UPPER_A, 71, QUOTE, BACKSLASH}

StringTokenInputs ==
    {<<QUOTE>> \o b : b \in {<<>>} \cup {<<a>> : a \in StringBytes}
                           \cup {<<a, b>> : a, b \in StringBytes}
                           \cup {<<a, b, c>> : a, b, c \in StringBytes}
                           \cup {<<a, b, c, d>> : a, b, c, d \in StringBytes}}
      \cup {<<QUOTE, BACKSLASH, LOWER_U, a, b, c, d>> \o t :
              a, b, c, d \in EscapeBytes, t \in {<<>>, <<QUOTE>>, <<120, QUOTE>>}}
      \cup {<<QUOTE, BACKSLASH, a, QUOTE>> : a \in 0..255}

\* what may stand after a number
NumberTerminators ==
    {<<COMMA_B>>, <<RBRACKET>>, <<RBRACE>>, <<SPACE>>, <<TAB>>, <<LF>>, <<CR>>,
     <<COLON_B>>, <<QUOTE, QUOTE>>, BAREWORD_TRUE, <<MINUS>>, <<DOT>>, <<PLUS>>}

NumberTokenInputs ==
    ByteStrings(MaxNumberLen)
      \cup {n \o t : n \in AcceptedNumbers \cup RejectedNumbers, t \in NumberTerminators}
      \cup {<<SPACE>> \o n \o t \o n : n \in AcceptedNumbers, t \in NumberTerminators}

WhitespaceBytes == {SPACE, TAB, LF, CR}

WhitespaceInputs ==
    {<<>>} \cup {<<a>> : a \in WhitespaceBytes} \cup {<<a, b>> : a, b \in WhitespaceBytes}
      \cup {<<a, b, c>> : a, b, c \in WhitespaceBytes}
      \cup {<<a>> \o p \o <<b>> : a, b \in WhitespaceBytes, p \in Pieces}

InitTok ==
    /\ \/ whole \in BarewordInputs
       \/ whole \in StringTokenInputs
       \/ whole \in NumberTokenInputs
       \/ whole \in WhitespaceInputs
       \/ whole \in ShortDocs
    /\ rest = <<>>
    /\ input = whole
    /\ eof = TRUE
    /\ json_stack = <<>>
    /\ expects = {"VALUE"}
    /\ tok = NoToken
    /\ pc = "tokenize"
    /\ result = "none"

\* while let Some(tok) = read_next_token(&mut reader).expect("failed to read")
Tokenize ==
    /\ pc = "tokenize"
    /\ LET r == read_next_token(input) IN
         /\ Consume(r.n)
         /\ tok' = Token(r.type, r.data)
         /\ result' = r.st
         /\ pc' = IF r.st = "Tok" THEN "tokenize" ELSE "exited"
    /\ UNCHANGED <<eof, whole, rest, json_stack, expects>>

NextTok == Tokenize

SpecTok == InitTok /\ [][NextTok]_vars

(***************************************************************************)
(* Properties                                                              *)
(***************************************************************************)
AllWhitespace(s) == \A i \in 1..Len(s) : s[i] \in {32, 9, 10, 13}

\* s is one syntactically valid JSON document followed by only whitespace: a JSON
\* text of RFC 8259 in which no object repeats a name and no surrogate escape
\* stands without its partner
JsonDocument(s) == RefText(s).next # 0 /\ RefText(s).uniq /\ RefText(s).wf

\* C1: verify returns true if and only if the entire input is exactly one
\* syntactically valid JSON document followed by only whitespace, and returns
\* false in every other case.
C1_Contract ==
    pc = "done" =>
        /\ result \in {"true", "false"}
        /\ result = "true" <=> JsonDocument(whole)

\* C2 as stated: for any input accepted by the RFC 8259 grammar, verify returns true.
C2_AnyGrammaticalInput == (pc = "done" /\ Rfc8259(whole)) => result = "true"

\* C2, amended: for any input accepted by the RFC 8259 grammar in which no object
\* repeats a key (keys compared as decoded text) and every surrogate \u escape is
\* one half of a high-low pair, verify returns true.
C2_GrammaticalInputAccepted == (pc = "done" /\ JsonDocument(whole)) => result = "true"

\* a nested document with escaped keys was verified
C2_Witness ==
    /\ pc = "done"
    /\ result = "true"
    /\ whole = InArray(Object2(KEY_A_UNICODE, <<DIGIT0>>, KEY_SLASH_ESCAPED, <<DIGIT0>>))

\* C3: if the lexer reports end of input before any token was accepted (the input
\* is empty or only whitespace), verify returns false.
C3_NoDocumentRejected == (pc = "done" /\ AllWhitespace(whole)) => result = "false"

\* the canonical text of the key written as the bytes k
Canonical(k) == interpret_string(read_string(k).data)

\* C4: whenever two keys of the same object decode to the same canonical text,
\* however each is written, verify returns false at the second key: the token it
\* stops at is that key, and the bytes after it are left unread.
C4_DuplicateKeyRejected ==
    pc = "done" =>
        /\ (Rfc8259(whole) /\ RefText(whole).wf /\ ~RefText(whole).uniq) => result = "false"
        /\ whole \in FlatDocs =>
           \A k1 \in KeyStrings, k2 \in KeyStrings, v1 \in MemberValues, v2 \in MemberValues :
             (whole = Object2(k1, v1, k2, v2) /\ Canonical(k1) = Canonical(k2)) =>
                /\ result = "false"
                /\ tok = Token("String", read_string(k2).data)
                /\ input = <<COLON_B>> \o v2 \o <<RBRACE>>

\* "/" and "\u002F" were keys of one object, and the second was refused
C4_Witness ==
    /\ pc = "done"
    /\ result = "false"
    /\ whole = Object2(KEY_SLASH, <<DIGIT0>>, KEY_SLASH_UNICODE, <<DIGIT0>>)
    /\ tok = Token("String", read_string(KEY_SLASH_UNICODE).data)

\* the top-level value of the document s, by the grammar
TopLevelValue(s) == RefValue(s, RefWs(s, 1))

\* C5: once the top-level value has completed, verify returns false if any
\* non-whitespace byte remains in the input, and true if only whitespace or
\* nothing remains.
C5_TrailingContent ==
    LET v == TopLevelValue(whole) IN
    (pc = "done" /\ v.next # 0 /\ v.uniq /\ v.wf) =>
        result = IF AllWhitespace(From(whole, v.next)) THEN "true" ELSE "false"

\* {}true was refused, and the bytes after {} were not read as a token
C5_Witness ==
    /\ pc = "done"
    /\ result = "false"
    /\ whole = <<LBRACE, RBRACE>> \o BAREWORD_TRUE
    /\ input = BAREWORD_TRUE
    /\ tok = NoToken

RECURSIVE ClosingQuote(_, _)
\* the index of the first quotation mark of s at or after i that no backslash
\* escapes, 0 when there is none
ClosingQuote(s, i) ==
    IF i > Len(s) THEN 0
    ELSE IF s[i] = QUOTE THEN i
    ELSE IF s[i] = BACKSLASH THEN ClosingQuote(s, i + 2)
    ELSE ClosingQuote(s, i + 1)

\* the next token of s is a string that s ends in the middle of
UnterminatedString(s) ==
    /\ At(s, RefWs(s, 1)) = QUOTE
    /\ ClosingQuote(s, RefWs(s, 1) + 1) = 0

\* C6: if the input ends while a container is still open (the lexer reports end
\* of input and the stack is not empty), or while a string has not reached its
\* closing quote, verify returns false.
C6_InputEndsEarly ==
    [][ /\ (pc = "loop" /\ eof /\ AllWhitespace(input) /\ json_stack # <<>>) =>
              (pc' = "post" /\ json_stack' = json_stack)
        /\ (pc = "post" /\ json_stack # <<>>) => (pc' = "done" /\ result' = "false")
        /\ (pc = "loop" /\ eof /\ UnterminatedString(input)) =>
              (pc' = "done" /\ result' = "false")
        /\ (pc' = "done" /\ whole \in {<<LBRACKET>> \o KEY_A, <<LBRACKET, QUOTE, RBRACKET>>}) =>
              result' = "false" ]_vars

\* ["a" was refused at the end of the input, with the array still open
C6_Witness ==
    /\ pc = "done"
    /\ result = "false"
    /\ whole = <<LBRACKET>> \o KEY_A
    /\ input = <<>>
    /\ tok = NoToken
    /\ Len(json_stack) = 1

\* C7: a ClosingBracket arriving while the innermost open container is an
\* object, or a ClosingBrace arriving while it is an array, at any nesting depth,
\* makes verify return false, and nothing is popped.
C7_WrongClosingToken ==
    [][ ( /\ pc = "match"
          /\ json_stack # <<>>
          /\ \/ tok.type = "ClosingBracket" /\ Last(json_stack).kind = "Object"
             \/ tok.type = "ClosingBrace" /\ Last(json_stack).kind = "Array" ) =>
        ( /\ pc' = "done"
          /\ result' = "false"
          /\ json_stack' = json_stack ) ]_vars

\* a ] was refused inside an object that is itself inside a container, after a
\* member of that object
C7_Witness ==
    /\ pc = "done"
    /\ result = "false"
    /\ tok.type = "ClosingBracket"
    /\ Len(json_stack) = 2
    /\ Last(json_stack).kind = "Object"
    /\ Last(json_stack).known_keys # {}
    /\ expects = {"COMMA", "CLOSING_BRACE"}

\* C8: a Colon token is accepted only immediately after an object key: a colon
\* inside an array, a colon after an object value, and any token other than a
\* colon directly after an object key all make verify return false.
C8_ColonOnlyAfterKey ==
    [][ /\ (pc = "match" /\ tok.type = "Colon" /\ pc' = "loop") =>
              ( /\ json_stack # <<>>
                /\ Last(json_stack).kind = "Object"
                /\ Last(json_stack).current_key # <<>>
                /\ expects = {"COLON"} )
        /\ ( /\ pc = "match"
             /\ tok.type = "Colon"
             /\ json_stack # <<>>
             /\ \/ Last(json_stack).kind = "Array"
                \/ expects = {"COMMA", "CLOSING_BRACE"} ) =>
              (pc' = "done" /\ result' = "false")
        /\ (pc = "match" /\ expects = {"COLON"} /\ tok.type # "Colon") =>
              (pc' = "done" /\ result' = "false") ]_vars

\* p is a number of RFC 8259: [ minus ] int [ frac ] [ exp ]
IsNumber(p) == p # <<>> /\ RefNumber(p, 1) = Len(p) + 1

\* p can be continued to a number: it is one, or one more digit makes it one
ExtendsToNumber(p) == IsNumber(p) \/ IsNumber(p \o <<DIGIT0>>)

\* the longest prefix of s that can be continued to a number
LongestNumberPrefix(s) ==
    LET k == CHOOSE k \in 0..Len(s) :
                 /\ ExtendsToNumber(SubSeq(s, 1, k))
                 /\ \A j \in (k + 1)..Len(s) : ~ExtendsToNumber(SubSeq(s, 1, j))
    IN SubSeq(s, 1, k)

\* C9: read_number_string returns a Number token exactly for the number forms of
\* RFC 8259, carrying the longest prefix of the input that extends the number and
\* leaving the rest unread; it returns an error where a mandatory position (the
\* digit after '-', after '.', the sign or digit after e/E, the digit after the
\* sign) holds a wrong byte or the end of the input.  "0", "-0", "0.5", "1e10",
\* "-1.5E-3" are accepted and "1.", "1e" are rejected.
C9_NumberForms ==
    pc = "returned" =>
        LET m == LongestNumberPrefix(whole) IN
        /\ IsNumber(whole) => (result = "Tok" /\ tok = Token("Number", whole))
        /\ result = "Tok" <=> IsNumber(m)
        /\ result = "Tok" => (tok = Token("Number", m) /\ input = From(whole, Len(m) + 1))
        /\ result # "Tok" =>
              /\ result = "Err"
              /\ IF Len(m) = Len(whole) THEN tok.type = "Io"
                 ELSE tok = Token("InvalidNumberCharacter", <<whole[Len(m) + 1]>>)
        /\ whole \in AcceptedNumbers => result = "Tok"
        /\ whole \in RejectedNumbers => result = "Err"

\* -1.5E-3 was read whole as one Number token
C9_Witness ==
    /\ pc = "returned"
    /\ result = "Tok"
    /\ whole = NUMBER_ALL_PARTS
    /\ tok = Token("Number", NUMBER_ALL_PARTS)
    /\ input = <<>>

\* s starts, after whitespace, with a '0' (optionally after '-') that another
\* digit follows at once
LeadingZero(s) ==
    LET a == IF At(s, RefWs(s, 1)) = MINUS THEN RefWs(s, 1) + 1 ELSE RefWs(s, 1) IN
    At(s, a) = DIGIT0 /\ At(s, a + 1) \in 48..57

\* c is the beginning of s
IsPrefix(c, s) == Len(c) <= Len(s) /\ SubSeq(s, 1, Len(c)) = c

\* C10: a number written with a leading '0' (optionally after '-') that another
\* digit follows at once is rejected in every value position (top level, array
\* element, object value): the number token ends at the zero, the digit after it
\* is refused, and verify returns false for the document.
C10_LeadingZeroRejected ==
    [][ /\ (pc = "loop" /\ "VALUE" \in expects /\ LeadingZero(input)) =>
              ( /\ pc' = "match"
                /\ tok' \in {Token("Number", <<DIGIT0>>), Token("Number", <<MINUS, DIGIT0>>)}
                /\ At(input', 1) \in 48..57
                /\ expects' = expects )
        /\ ( /\ pc = "match"
             /\ "VALUE" \in expects
             /\ tok \in {Token("Number", <<DIGIT0>>), Token("Number", <<MINUS, DIGIT0>>)}
             /\ At(input, 1) \in 48..57 ) =>
              ( /\ input' = input
                /\ \/ pc' = "post" /\ json_stack' = <<>>
                   \/ /\ pc' = "loop"
                      /\ expects' \in {{"COMMA", "CLOSING_BRACKET"}, {"COMMA", "CLOSING_BRACE"}} )
        /\ (pc = "post" /\ json_stack = <<>> /\ At(input, 1) \in 48..57) =>
              (pc' = "done" /\ result' = "false")
        /\ ( /\ pc = "loop"
             /\ expects \in {{"COMMA", "CLOSING_BRACKET"}, {"COMMA", "CLOSING_BRACE"}}
             /\ At(input, 1) \in 48..57 ) =>
              \/ pc' = "done" /\ result' = "false"
              \/ pc' = "match" /\ tok'.type = "Number" /\ expects' = expects
        /\ ( /\ pc = "match"
             /\ expects \in {{"COMMA", "CLOSING_BRACKET"}, {"COMMA", "CLOSING_BRACE"}}
             /\ tok.type = "Number" ) =>
              (pc' = "done" /\ result' = "false")
        /\ ( /\ pc' = "done"
             /\ \E c \in ValueContexts :
                    IsPrefix(c, whole) /\ LeadingZero(From(whole, Len(c) + 1)) ) =>
              result' = "false" ]_vars

\* {"a":01} was refused at the 1 that follows the zero
C10_Witness ==
    /\ pc = "done"
    /\ result = "false"
    /\ whole = <<LBRACE>> \o KEY_A \o <<COLON_B, DIGIT0, DIGIT1, RBRACE>>
    /\ tok = Token("Number", <<DIGIT1>>)
    /\ expects = {"COMMA", "CLOSING_BRACE"}
    /\ input = <<RBRACE>>

\* the documents of SplitDocs on which verify is right about the document
SoundSplitDocs == SplitDocs \ {STRING_BAD_PAIR, <<SPACE, SPACE>>}

\* C11: verify is a function of the byte stream, however the reader splits the
\* bytes into buffer fills: every step of a run over a split document is the
\* step that the run over the same bytes held in memory takes (the same token
\* from the same position, the same stack and mask, the same result), so two
\* runs over the same bytes pass through the same states and end alike.
C11_SplitIndependent ==
    [][ LET all == input \o rest IN
        /\ input' \o rest' = From(all, Len(all) - Len(input' \o rest') + 1)
        /\ (pc = "loop" /\ pc' # "loop") =>
              LET r == read_next_token(all) IN
              /\ input' \o rest' = From(all, r.n + 1)
              /\ json_stack' = json_stack /\ expects' = expects
              /\ IF r.st = "Tok"
                   THEN pc' = "match" /\ tok' = Token(r.type, r.data) /\ result' = "none"
                 ELSE IF r.st = "None" THEN pc' = "post" /\ result' = "none"
                 ELSE pc' = "done" /\ result' = "false"
        /\ pc = "match" => (input' = input /\ rest' = rest)
        /\ (pc = "post" /\ pc' # "post") =>
              /\ pc' = "done"
              /\ result' = IF json_stack = <<>> /\ AllWhitespace(all) THEN "true" ELSE "false"
        /\ (pc' = "done" /\ whole \in SoundSplitDocs) =>
              result' = IF JsonDocument(whole) THEN "true" ELSE "false" ]_vars

\* the array was opened and the run waits for bytes in the middle of the word
\* true: the buffer ends after "tr"
C11_Witness ==
    /\ pc = "loop"
    /\ Len(json_stack) = 1
    /\ input = <<SPACE, LF, LOWER_T, LOWER_R>>
    /\ rest # <<>>
    /\ ~Determined(read_next_token(input))

\* the top frame of the stack is of the kind k
TopIs(stack, k) == stack # <<>> /\ Last(stack).kind = k

\* a String token whose decoding fails an unwrap: the one panic outside verify
DecodingPanics == tok.type = "String" /\ interpret_string(tok.data).st = "Panic"

\* C12: in every state of the token loop the mask is consistent with the stack:
\* KEY, COLON or CLOSING_BRACE in the mask implies that the top frame is an
\* object, CLOSING_BRACKET that it is an array, COMMA that the stack is not
\* empty; so no token drives verify into one of its own panics.
C12_MaskMatchesStack ==
    /\ pc \in {"loop", "match"} =>
          /\ (expects \cap {"KEY", "COLON", "CLOSING_BRACE"} # {}) => TopIs(json_stack, "Object")
          /\ "CLOSING_BRACKET" \in expects => TopIs(json_stack, "Array")
          /\ "COMMA" \in expects => json_stack # <<>>
    /\ result = "panic" => DecodingPanics

\* a } arrives where it is expected, and the frame it will pop is an object inside
\* a container
C12_Witness ==
    /\ pc = "match"
    /\ tok.type = "ClosingBrace"
    /\ "CLOSING_BRACE" \in expects
    /\ Len(json_stack) = 2
    /\ Last(json_stack).kind = "Object"

\* the masks that verify assigns
Masks ==
    { {"VALUE"}, {"KEY"}, {"COLON"}, {"VALUE", "CLOSING_BRACKET"}, {"KEY", "CLOSING_BRACE"},
      {"COMMA", "CLOSING_BRACKET"}, {"COMMA", "CLOSING_BRACE"} }

\* the mask that follows an accepted token of the type ty (a String read as a key
\* when key holds) once the stack is stack
MaskAfter(ty, key, stack) ==
    CASE ty = "Colon" -> {"VALUE"}
      [] ty = "Comma" -> IF TopIs(stack, "Array") THEN {"VALUE"} ELSE {"KEY"}
      [] ty = "OpeningBracket" -> {"VALUE", "CLOSING_BRACKET"}
      [] ty = "OpeningBrace" -> {"KEY", "CLOSING_BRACE"}
      [] ty = "String" /\ key -> {"COLON"}
      [] OTHER -> IF TopIs(stack, "Array") THEN {"COMMA", "CLOSING_BRACKET"}
                  ELSE {"COMMA", "CLOSING_BRACE"}

\* C13: the mask starts as {VALUE} with an empty stack, is assigned anew after
\* every accepted token that is followed by another read, and is never empty
\* where verify is about to read a token.
C13_MaskNeverEmpty ==
    /\ (json_stack = <<>> /\ expects = {"VALUE"} /\ pc = "loop")
    /\ [](pc = "loop" => (expects # {} /\ expects \in Masks))
    /\ [][ (pc = "match" /\ pc' = "loop") =>
              /\ expects' # {}
              /\ expects' = MaskAfter(tok.type, "KEY" \in expects, json_stack') ]_vars

\* a colon was accepted and verify is about to read the value of the member
C13_Witness ==
    /\ pc = "loop"
    /\ expects = {"VALUE"}
    /\ json_stack # <<>>
    /\ Last(json_stack).kind = "Object"
    /\ Last(json_stack).current_key # <<>>

\* the token held completes a value if it is accepted: a scalar, a String where no
\* key is expected, a closing token
CompletesValue ==
    \/ tok.type \in {"Null", "True", "False", "Number"}
    \/ tok.type = "String" /\ "KEY" \notin expects
    \/ tok.type \in {"ClosingBracket", "ClosingBrace"}

\* C14: after any completed value the mask is exactly {COMMA, CLOSING_BRACKET}
\* when the stack top is an array frame, exactly {COMMA, CLOSING_BRACE} when it is
\* an object frame, and the token loop stops when the stack is empty; scalar
\* tokens are accepted only when VALUE is in the mask and leave the stack
\* unchanged.
C14_MaskAfterValue ==
    [][ /\ (pc = "match" /\ CompletesValue /\ pc' # "done") =>
              IF json_stack' = <<>> THEN pc' = "post"
              ELSE /\ pc' = "loop"
                   /\ Last(json_stack').kind = "Array" => expects' = {"COMMA", "CLOSING_BRACKET"}
                   /\ Last(json_stack').kind = "Object" => expects' = {"COMMA", "CLOSING_BRACE"}
        /\ (pc = "match" /\ tok.type \in {"Null", "True", "False", "Number"}) =>
              IF "VALUE" \in expects THEN pc' # "done" /\ json_stack' = json_stack
              ELSE pc' = "done" /\ result' = "false" /\ json_stack' = json_stack
        /\ (pc = "match" /\ tok.type \in {"ClosingBracket", "ClosingBrace"} /\ pc' # "done") =>
              json_stack' = Popped(json_stack) ]_vars

\* the value of a member was completed inside an object that is an element of an
\* array, and a comma or a } is expected
C14_Witness ==
    /\ pc = "loop"
    /\ expects = {"COMMA", "CLOSING_BRACE"}
    /\ Len(json_stack) = 2
    /\ json_stack[1].kind = "Array"
    /\ Last(json_stack).kind = "Object"
    /\ Last(json_stack).current_key # <<>>

\* C15: a closing token is accepted directly after the matching opening token
\* and directly after a completed element, never directly after a comma: after
\* a Comma the mask is exactly {VALUE} in an array and exactly {KEY} in an object,
\* so a trailing comma and a key that is not a string are rejected with false.
C15_ClosingAndComma ==
    [][ /\ (pc = "match" /\ tok.type = "Comma" /\ pc' # "done") =>
              /\ pc' = "loop"
              /\ TopIs(json_stack, "Array") =>
                    /\ expects' = {"VALUE"}
                    /\ json_stack' = WithLast(json_stack,
                          [Last(json_stack) EXCEPT !.current_index = @ + 1])
              /\ TopIs(json_stack, "Object") =>
                    /\ expects' = {"KEY"}
                    /\ json_stack' = WithLast(json_stack,
                          [Last(json_stack) EXCEPT !.current_key = <<>>])
        /\ (pc = "match" /\ tok.type = "OpeningBracket" /\ pc' # "done") =>
              (expects' = {"VALUE", "CLOSING_BRACKET"} /\ json_stack' = Append(json_stack, NewArray))
        /\ (pc = "match" /\ tok.type = "OpeningBrace" /\ pc' # "done") =>
              (expects' = {"KEY", "CLOSING_BRACE"} /\ json_stack' = Append(json_stack, NewObject))
        /\ ( /\ pc = "match"
             /\ \/ tok.type = "ClosingBracket" /\ expects \in {{"VALUE", "CLOSING_BRACKET"},
                                                               {"COMMA", "CLOSING_BRACKET"}}
                \/ tok.type = "ClosingBrace" /\ expects \in {{"KEY", "CLOSING_BRACE"},
                                                             {"COMMA", "CLOSING_BRACE"}} ) =>
              (pc' \in {"loop", "post"} /\ json_stack' = Popped(json_stack))
        /\ ( /\ pc = "match"
             /\ expects \in {{"VALUE"}, {"KEY"}}
             /\ tok.type \in {"ClosingBracket", "ClosingBrace"} ) =>
              (pc' = "done" /\ result' = "false")
        /\ (pc = "match" /\ expects = {"KEY"} /\ tok.type # "String") =>
              (pc' = "done" /\ result' = "false") ]_vars

\* a ] directly after the comma of an array was refused
C15_Witness ==
    /\ pc = "done"
    /\ result = "false"
    /\ tok.type = "ClosingBracket"
    /\ expects = {"VALUE"}
    /\ json_stack # <<>>
    /\ Last(json_stack).kind = "Array"
    /\ Last(json_stack).current_index = 1

\* C16: as soon as the stack is empty after a token, verify pulls no further
\* token: the rest of the input is examined by one skip of whitespace and one
\* peek only.  The stack is empty at the start and whenever verify returns true,
\* and no token after the top-level value is ever read.
C16_OneTopLevelValue ==
    /\ json_stack = <<>>
    /\ [](result = "true" => (pc = "done" /\ json_stack = <<>>))
    /\ []((pc = "loop" /\ json_stack = <<>>) => input = whole)
    /\ []((pc = "match" /\ json_stack = <<>>) =>
             LET r == read_next_token(whole) IN
             tok = Token(r.type, r.data) /\ input = From(whole, r.n + 1))
    /\ [][ ((pc = "match" /\ pc' # "done" /\ json_stack' = <<>>) => pc' = "post")
            /\ (pc = "post" =>
                  ( /\ pc' = "done"
                    /\ tok' = NoToken
                    /\ json_stack' = json_stack
                    /\ input' = IF json_stack = <<>> THEN From(input, RefWs(input, 1))
                                ELSE input )) ]_vars

\* [][ was refused: the second [ was seen by the peek and never read as a token
C16_Witness ==
    /\ pc = "done"
    /\ result = "false"
    /\ whole = <<LBRACKET, RBRACKET, SPACE, LBRACKET>>
    /\ input = <<LBRACKET>>
    /\ tok = NoToken
    /\ json_stack = <<>>

\* the frames of stack below its top
Below(stack) == SubSeq(stack, 1, Len(stack) - 1)

\* C17: known-key sets are scoped to one object frame: a key is compared only
\* with the keys seen before in the same open object; the same key in a nested
\* object, in a sibling object or in an object opened after an earlier one was
\* closed is no duplicate; pushing and popping a frame leaves the frames of the
\* other containers as they were.
C17_KeysScopedToFrame ==
    /\ [](pc = "done" => /\ whole \in ScopedDocs => result = "true"
                         /\ whole = OUTER_KEY_AGAIN => result = "false")
    /\ [][ /\ ( /\ pc = "match" /\ tok.type = "String" /\ "KEY" \in expects
                /\ interpret_string(tok.data).st = "Ok" ) =>
                 LET text == interpret_string(tok.data).data
                     top == Last(json_stack)
                 IN IF text \in top.known_keys
                      THEN pc' = "done" /\ result' = "false" /\ json_stack' = json_stack
                      ELSE /\ pc' = "loop"
                           /\ Below(json_stack') = Below(json_stack)
                           /\ Last(json_stack').known_keys = top.known_keys \cup {text}
           /\ (pc = "match" /\ tok.type \in {"OpeningBracket", "OpeningBrace"} /\ pc' # "done") =>
                 (Below(json_stack') = json_stack /\ Last(json_stack').known_keys = {})
           /\ (pc = "match" /\ tok.type \in {"ClosingBracket", "ClosingBrace"} /\ pc' # "done") =>
                 json_stack' = Below(json_stack)
           /\ \A i \in 1..(Len(json_stack) - 1) :
                 i <= Len(json_stack') => json_stack'[i] = json_stack[i] ]_vars

\* the key "a" was accepted in an object that is the value of the key "a" of the
\* object around it
C17_Witness ==
    /\ whole = InObject(OBJECT_A)
    /\ pc = "loop"
    /\ expects = {"COLON"}
    /\ Len(json_stack) = 2
    /\ json_stack[1].known_keys = json_stack[2].known_keys
    /\ json_stack[2].known_keys # {}

(***************************************************************************)
(* C18: strings where a value is expected                                  *)
(***************************************************************************)
\* a String token is held where a value, and no key, is expected
ValueString ==
    /\ pc = "match"
    /\ tok.type = "String"
    /\ "VALUE" \in expects
    /\ "KEY" \notin expects

\* C18 as stated: a String token arriving when VALUE is expected (and KEY is
\* not) is accepted as a completed value whatever its character content.
C18_ValueStringAnyContent ==
    [][ ValueString => (pc' \in {"loop", "post"} /\ result' = result) ]_vars

\* C18, amended: a String token arriving when VALUE is expected (and KEY is
\* not) is decoded first, like every String token: when interpret_string
\* returns an error verify returns false and leaves the stack and the mask as
\* they are, and when it returns a text the token is accepted as a completed
\* value whatever that text is, the stack is kept and the mask is recomputed
\* from the top of the stack.
C18_ValueStringDecodedFirst ==
    [][ ValueString =>
          LET ps == interpret_string(tok.data) IN
          /\ ps.st = "Err" =>
               (pc' = "done" /\ result' = "false" /\ json_stack' = json_stack /\ expects' = expects)
          /\ ps.st = "Ok" =>
               /\ result' = result
               /\ json_stack' = json_stack
               /\ IF json_stack = <<>> THEN pc' = "post" /\ expects' = expects
                  ELSE pc' = "loop" /\ expects' = MaskAfter("String", FALSE, json_stack) ]_vars

\* the element "\uD800" of an array was refused because it does not decode
C18_Witness ==
    /\ pc = "done"
    /\ result = "false"
    /\ tok = Token("String", <<JsonChar("UnicodeEscape", SURROGATE_FIRST)>>)
    /\ interpret_string(tok.data).st = "Err"
    /\ expects = {"VALUE", "CLOSING_BRACKET"}
    /\ Len(json_stack) = 1

(***************************************************************************)
(* C19, C20: surrogates in interpret_string                                *)
(***************************************************************************)
IsHighEscape(c) ==
    c.k = "UnicodeEscape" /\ c.v >= SURROGATE_FIRST /\ c.v <= HIGH_SURROGATE_LAST

IsLowEscape(c) ==
    c.k = "UnicodeEscape" /\ c.v >= LOW_SURROGATE_FIRST /\ c.v <= SURROGATE_LAST

RECURSIVE SurrogateFault(_, _)
\* from index i on, s holds a high surrogate escape that is not immediately
\* followed by a low surrogate escape, or a low surrogate escape that follows
\* no high surrogate escape
SurrogateFault(s, i) ==
    IF i > Len(s) THEN FALSE
    ELSE IF IsHighEscape(s[i]) THEN
        IF i + 1 <= Len(s) /\ IsLowEscape(s[i + 1]) THEN SurrogateFault(s, i + 2)
        ELSE TRUE
    ELSE IF IsLowEscape(s[i]) THEN TRUE
    ELSE SurrogateFault(s, i + 1)

\* the raw bytes of s are ASCII, so no UTF-8 error comes before a surrogate
AsciiBytesOnly(s) == \A j \in 1..Len(s) : s[j].k = "Byte" => s[j].v < 128

\* C19: a high surrogate escape that is not immediately followed by a Unicode
\* escape in [0xDC00, 0xDFFF] (end of string, a raw byte, a fixed escape, or a
\* Unicode escape outside that range), and a lone low surrogate escape, make
\* interpret_string return the error InvalidUtf16SurrogateSequence.
C19_SurrogateErrors ==
    (pc = "interpreted" /\ AsciiBytesOnly(whole) /\ SurrogateFault(whole, 1)) =>
        (result = "Err" /\ tok.type = "InvalidUtf16SurrogateSequence")

\* C20: a high surrogate escape h followed by a low surrogate escape l gives
\* the single code point 0x10000 + (h-0xD800)*0x400 + (l-0xDC00), which lies
\* in [0x10000, 0x10FFFF] and is the code point that the 4-byte raw UTF-8 form
\* of the same character decodes to; a non-surrogate escape gives its own
\* value as the code point.
C20_SurrogatePairCodePoint ==
    pc = "interpreted" =>
      /\ (Len(whole) = 2 /\ IsHighEscape(whole[1]) /\ IsLowEscape(whole[2])) =>
           LET h == whole[1].v
               l == whole[2].v
               cp == 65536 + ((h - 55296) * 1024) + (l - 56320)
           IN /\ result = "Ok"
              /\ tok.data = <<cp>>
              /\ cp >= 65536
              /\ cp <= 1114111
              /\ interpret_string(Bytes(Utf8Encode4(cp))) = IRes("Ok", "String", tok.data)
      /\ (Len(whole) = 4 /\ IsHighEscape(whole[2]) /\ IsLowEscape(whole[3])) =>
           /\ result = "Ok"
           /\ tok.data = << LOWER_A,
                            65536 + ((whole[2].v - 55296) * 1024) + (whole[3].v - 56320),
                            LOWER_A >>
      /\ whole \in RawSupplementary =>
           /\ result = "Ok"
           /\ Len(tok.data) = 1
           /\ Bytes(Utf8Encode4(tok.data[1])) = whole
      /\ ( /\ Len(whole) = 1 /\ whole[1].k = "UnicodeEscape"
           /\ ~IsHighEscape(whole[1]) /\ ~IsLowEscape(whole[1]) ) =>
           (result = "Ok" /\ tok.data = <<whole[1].v>>)

\* the pair \uDBFF\uDFFF was decoded to the last code point, U+10FFFF
C20_Witness ==
    /\ pc = "interpreted"
    /\ whole = <<UE(HIGH_SURROGATE_LAST), UE(SURROGATE_LAST)>>
    /\ result = "Ok"
    /\ tok.data = <<CHAR_MAX>>

(***************************************************************************)
(* C21: raw bytes in interpret_string                                      *)
(***************************************************************************)
\* the length of the UTF-8 form that a leading byte announces (RFC 3629), 0 for none
FormLength(b) ==
    IF b >= 192 /\ b <= 223 THEN 2
    ELSE IF b >= 224 /\ b <= 239 THEN 3
    ELSE IF b >= 240 /\ b <= 247 THEN 4
    ELSE 0

\* a raw byte of the form 10xxxxxx
IsTailByte(c) == c.k = "Byte" /\ c.v >= 128 /\ c.v <= 191

\* the code point that a complete form of n bytes carries
FormValue(s, n) ==
    IF n = 2 THEN (s[1].v - 192) * 64 + (s[2].v - 128)
    ELSE IF n = 3 THEN (s[1].v - 224) * 4096 + (s[2].v - 128) * 64 + (s[3].v - 128)
    ELSE (s[1].v - 240) * 262144 + (s[2].v - 128) * 4096
           + (s[3].v - 128) * 64 + (s[4].v - 128)

\* C21: in a multi-byte UTF-8 form every continuation position must hold a raw
\* byte 10xxxxxx, otherwise (another byte, an escape, or the end of the string)
\* the result is InvalidUtf8Sequence naming the bytes seen so far; and
\* Utf8SequenceProducedSurrogate is reported exactly when the decoded code
\* point lies in [0xD800, 0xDFFF].
C21_Utf8Errors ==
    ( /\ pc = "interpreted"
      /\ whole # <<>>
      /\ whole[1].k = "Byte"
      /\ FormLength(whole[1].v) > 0
      /\ Len(whole) <= FormLength(whole[1].v) ) =>
        LET n == FormLength(whole[1].v)
            bad == {j \in 2..n : j > Len(whole) \/ ~IsTailByte(whole[j])}
        IN IF bad # {}
             THEN LET k == CHOOSE j \in bad : \A m \in bad : j <= m IN
                  /\ result = "Err"
                  /\ tok.type = "InvalidUtf8Sequence"
                  /\ Len(tok.data) >= k - 1
                  /\ SubSeq(tok.data, 1, k - 1) = SubSeq(whole, 1, k - 1)
             ELSE (result = "Err" /\ tok.type = "Utf8SequenceProducedSurrogate")
                    <=> (FormValue(whole, n) >= 55296 /\ FormValue(whole, n) <= 57343)

(***************************************************************************)
(* C22: the bytes a number consumes                                        *)
(***************************************************************************)
\* the token that the next call returns when it starts at the byte b
TerminatorToken(b) ==
    CASE b = 44 -> "Comma"
      [] b = 93 -> "ClosingBracket"
      [] b = 125 -> "ClosingBrace"
      [] b = 58 -> "Colon"
      [] OTHER -> "Other"

\* C22: number reading consumes exactly the bytes of the returned Number token:
\* the bytes after the leading whitespace are the token's bytes followed by
\* what is left in the reader, the first byte left does not extend the number,
\* and it is the byte that the following read_next_token call starts with.
C22_NumberLeavesTerminator ==
    /\ [](input = From(whole, Len(whole) - Len(input) + 1))
    /\ [][ (pc = "tokenize" /\ result' = "Tok" /\ tok'.type = "Number") =>
              LET p == From(input, RefWs(input, 1)) IN
              /\ IsNumber(tok'.data)
              /\ p = tok'.data \o input'
              /\ input' # <<>> => ~ExtendsToNumber(tok'.data \o <<input'[1]>>) ]_vars
    /\ [][ ( /\ pc = "tokenize" /\ result = "Tok" /\ tok.type = "Number"
             /\ input # <<>> /\ TerminatorToken(input[1]) # "Other" ) =>
              /\ result' = "Tok"
              /\ tok' = Token(TerminatorToken(input[1]), <<>>)
              /\ input' = Tail(input) ]_vars

\* -1.5E-3 was read from " -1.5E-3]-1.5E-3" and the bracket is the next byte
C22_Witness ==
    /\ pc = "tokenize"
    /\ result = "Tok"
    /\ tok = Token("Number", NUMBER_ALL_PARTS)
    /\ whole = <<SPACE>> \o NUMBER_ALL_PARTS \o <<RBRACKET>> \o NUMBER_ALL_PARTS
    /\ input = <<RBRACKET>> \o NUMBER_ALL_PARTS

(***************************************************************************)
(* C23: barewords                                                          *)
(***************************************************************************)
\* the byte b starts neither a structural token, a string nor a number
StartsBareword(b) ==
    /\ b \notin {91, 93, 123, 125, 58, 44, 34, 45}
    /\ ~(b >= 48 /\ b <= 57)

\* C23: when the first non-whitespace byte starts a bareword, read_next_token
\* reads four bytes: "true" gives True, "null" gives Null, "fals" followed by
\* 'e' gives False; any other four bytes, and "fals" followed by another byte,
\* fail with InvalidBarewordBeginning carrying the bytes read; fewer bytes
\* than required fail with an end-of-input error.
C23_Barewords ==
    [][ ( /\ pc = "tokenize"
          /\ RefWs(input, 1) <= Len(input)
          /\ StartsBareword(input[RefWs(input, 1)]) ) =>
          LET p == From(input, RefWs(input, 1))
              four == SubSeq(p, 1, 4)
              needed == IF Len(p) >= 4 /\ four = <<102, 97, 108, 115>> THEN 5 ELSE 4
              got == Token(tok'.type, <<>>)
          IN /\ tok'.type = "True" <=> (Len(p) >= 4 /\ four = <<116, 114, 117, 101>>)
             /\ tok'.type = "Null" <=> (Len(p) >= 4 /\ four = <<110, 117, 108, 108>>)
             /\ tok'.type = "False" <=> (Len(p) >= 5 /\ SubSeq(p, 1, 5) = <<102, 97, 108, 115, 101>>)
             /\ tok'.type \in {"True", "Null", "False"} => (result' = "Tok" /\ tok' = got)
             /\ Len(p) < needed => (result' = "Err" /\ tok'.type = "Io")
             /\ (Len(p) >= needed /\ tok'.type \notin {"True", "Null", "False"}) =>
                   /\ result' = "Err"
                   /\ tok' = Token("InvalidBarewordBeginning", SubSeq(p, 1, needed))
             /\ Len(p) >= needed => input' = From(p, needed + 1) ]_vars

\* "false" was read as the token False, and the comma after it is left
C23_Witness ==
    /\ pc = "tokenize"
    /\ result = "Tok"
    /\ tok = Token("False", <<>>)
    /\ whole = <<102, 97, 108, 115, 101, COMMA_B>>
    /\ input = <<COMMA_B>>

(***************************************************************************)
(* C24: escapes in read_string                                             *)
(***************************************************************************)
HexBytes == (48..57) \cup (65..70) \cup (97..102)

RECURSIVE StringScan(_, _)
\* how the string that opens at p[1] ends, scanning from index i: "closed" at
\* its closing quote, "unknown" at an escape byte that is no escape, "badhex"
\* at the first of four bytes after \u that are not all hex digits, or "eof"
StringScan(p, i) ==
    IF i > Len(p) THEN [kind |-> "eof", at |-> i]
    ELSE IF p[i] = 34 THEN [kind |-> "closed", at |-> i]
    ELSE IF p[i] # 92 THEN StringScan(p, i + 1)
    ELSE IF i + 1 > Len(p) THEN [kind |-> "eof", at |-> i + 1]
    ELSE IF p[i + 1] \in {34, 92, 47, 98, 102, 110, 114, 116} THEN StringScan(p, i + 2)
    ELSE IF p[i + 1] # 117 THEN [kind |-> "unknown", at |-> i + 1]
    ELSE IF i + 5 > Len(p) THEN [kind |-> "eof", at |-> Len(p) + 1]
    ELSE IF \A j \in (i + 2)..(i + 5) : p[j] \in HexBytes THEN StringScan(p, i + 6)
    ELSE [kind |-> "badhex", at |-> i + 2]

\* C24: in read_string a backslash must be followed by one of the eight fixed
\* escape letters or by 'u' and four hex digits: another escape byte fails
\* with UnknownEscape carrying that byte, a non-hex byte among the four fails
\* with InvalidUnicodeEscape carrying the four bytes, the end of the input
\* before the closing quote is an end-of-input error, and an escaped quote
\* never ends the string.
C24_StringEscapes ==
    [][ ( /\ pc = "tokenize"
          /\ RefWs(input, 1) <= Len(input)
          /\ input[RefWs(input, 1)] = 34 ) =>
          LET p == From(input, RefWs(input, 1))
              sc == StringScan(p, 2)
          IN /\ sc.kind = "closed" =>
                  /\ result' = "Tok"
                  /\ tok'.type = "String"
                  /\ input' = From(p, sc.at + 1)
                  /\ \A j \in 1..Len(tok'.data) :
                        tok'.data[j].k = "Byte" => tok'.data[j].v \notin {34, 92}
             /\ sc.kind = "unknown" =>
                  (result' = "Err" /\ tok' = Token("UnknownEscape", <<p[sc.at]>>))
             /\ sc.kind = "badhex" =>
                  /\ result' = "Err"
                  /\ tok' = Token("InvalidUnicodeEscape", SubSeq(p, sc.at, sc.at + 3))
             /\ sc.kind = "eof" => (result' = "Err" /\ tok'.type = "Io") ]_vars

\* the string "\"" was read as one escaped quote and ended at its last quote
C24_Witness ==
    /\ pc = "tokenize"
    /\ result = "Tok"
    /\ whole = <<QUOTE, BACKSLASH, QUOTE, QUOTE>>
    /\ tok = Token("String", <<JsonChar("EscapedQuote", 0)>>)
    /\ input = <<>>

(***************************************************************************)
(* C25: the end of the token sequence                                      *)
(***************************************************************************)
\* the types of token that can start at the byte b
TypesStartingAt(b) ==
    CASE b = 91 -> {"OpeningBracket"}
      [] b = 93 -> {"ClosingBracket"}
      [] b = 123 -> {"OpeningBrace"}
      [] b = 125 -> {"ClosingBrace"}
      [] b = 58 -> {"Colon"}
      [] b = 44 -> {"Comma"}
      [] b = 34 -> {"String"}
      [] b = 45 \/ (b >= 48 /\ b <= 57) -> {"Number"}
      [] OTHER -> {"True", "False", "Null"}

\* C25: read_next_token returns none if and only if nothing but whitespace
\* remains in the input; otherwise it returns a token or an error after it
\* consumed at least one byte, the token starts at the first byte that is not
\* whitespace, and what is left is the rest of the input behind the bytes
\* consumed, so that repeated calls visit the tokens once and in order.
C25_NoneAtEndOnly ==
    /\ [](input = From(whole, Len(whole) - Len(input) + 1))
    /\ [][ pc = "tokenize" =>
             /\ result' = "None" <=> AllWhitespace(input)
             /\ result' = "None" => (input' = <<>> /\ pc' = "exited")
             /\ result' # "None" =>
                  /\ result' \in {"Tok", "Err"}
                  /\ Len(input') < Len(input)
                  /\ input' = From(input, Len(input) - Len(input') + 1)
             /\ result' = "Tok" =>
                  /\ tok'.type \in TypesStartingAt(input[RefWs(input, 1)])
                  /\ Len(input) - Len(input') >= RefWs(input, 1)
                  /\ pc' = "tokenize" ]_vars

\* after the bracket of " [<TAB>" only whitespace was left, and none was returned
C25_Witness ==
    /\ pc = "exited"
    /\ result = "None"
    /\ whole = <<SPACE, LBRACKET, TAB>>
    /\ input = <<>>
    /\ tok = Token("None", <<>>)

(***************************************************************************)
(* C26, C27: termination and panics                                        *)
(***************************************************************************)
\* C26: verify terminates on every finite input: every iteration of the token
\* loop consumes at least one byte, returns, or stops at the end of the input,
\* and a verdict (true or false) is eventually reached.
C26_VerdictReached ==
    /\ [][ (pc = "loop" /\ pc' = "match") => Len(input') < Len(input) ]_vars
    /\ [][ pc = "match" => pc' \in {"loop", "post", "done"} ]_vars
    /\ [][ pc = "post" => pc' = "done" ]_vars
    /\ <>(pc = "done" /\ result \in {"true", "false"})

\* C27: verify ends by returning true or false and nothing panics: every
\* string that the lexer tokenizes is decoded to text or rejected with an
\* error value.
C27_NoPanic ==
    /\ pc = "done" => result \in {"true", "false"}
    /\ tok.type = "String" => interpret_string(tok.data).st \in {"Ok", "Err"}

====
